---- MODULE Spec2Model ----
(***************************************************************************)
(* A model of walle.py: the wire codec (_pack_udp / _unpack_udp), the      *)
(* display drivers (FakeDisplay, LocalLedDisplay), the UDP client          *)
(* (UdpLedDisplay) and the UDP server (_UdpLedDisplayServer).              *)
(*                                                                         *)
(* Data representation                                                     *)
(*   byte buffer   a sequence of 0..255                                    *)
(*   u32           <<hi, lo>>, two 16-bit halves (value hi * 65536 + lo),  *)
(*                 so that 2^32 - 1 and the wrap to 0 are representable    *)
(*   Python float  <<b1, b2, b3, b4, x>>: b1..b4 is the IEEE-754 binary32  *)
(*                 bit pattern of the value truncated toward zero to       *)
(*                 binary32, x in 0 .. 2^29 - 1 the 29 mantissa bits a     *)
(*                 double keeps below it (x = 0: exactly a binary32)       *)
(*   color         <<r, g, b>> of Python floats                            *)
(*   matrix        a sequence of rows, each a sequence of colors           *)
(*   None | matrix NoneVal = <<>>, Some(m) = <<m>>                         *)
(*   exceptions    a field exc, "none" when the call returned              *)
(***************************************************************************)
EXTENDS Integers, Sequences, FiniteSets, TLC

(* ------------------------------ bounds -------------------------------- *)

\* The driven display and the client are Dim x Dim (10 x 10 in the source).
Dim == 1

(* --------------------------- Python values ---------------------------- *)

NoneVal == <<>>

Some(m) == <<m>>

IsNone(o) == o = <<>>

\* Python truthiness of "None or a list": `if matrix:`
Truthy(o) == o # <<>> /\ o[1] # <<>>

\* F(x) with x computed once, however often F uses it
Once(x, F(_)) == CHOOSE r \in {F(v) : v \in {x}} : TRUE

RECURSIVE Concat(_)
Concat(ss) == IF ss = <<>> THEN <<>> ELSE Head(ss) \o Concat(Tail(ss))

RECURSIVE Repeat(_, _)
Repeat(v, n) == IF n <= 0 THEN <<>> ELSE <<v>> \o Repeat(v, n - 1)

(* ------------------------------- u32 ---------------------------------- *)

U32(n) == <<n \div 65536, n % 65536>>

\* u + 1, without the `% 2**32`
U32IncNoModulo(u) ==
    IF u[2] < 65535 THEN <<u[1], u[2] + 1>> ELSE <<u[1] + 1, 0>>

\* (u + 1) % 2**32
U32Inc(u) ==
    IF u[2] < 65535 THEN <<u[1], u[2] + 1>>
    ELSE IF u[1] < 65535 THEN <<u[1] + 1, 0>>
    ELSE <<0, 0>>

\* struct.pack('>I', u)
PackU32(u) == <<u[1] \div 256, u[1] % 256, u[2] \div 256, u[2] % 256>>

\* struct.unpack('>I', b)[0]
UnpackU32(b) == <<b[1] * 256 + b[2], b[3] * 256 + b[4]>>

(* ------------------------------ floats -------------------------------- *)

\* The magnitude bits of the binary32 pattern (sign bit cleared): at most 2^31 - 1.
Mag(f) == (((f[1] % 128) * 256 + f[2]) * 256 + f[3]) * 256 + f[4]

InfMag == 2139095040

HalfUlp == 268435456

Neg(f) == f[1] >= 128

IsNaN(f) == Mag(f) > InfMag

IsZero(f) == Mag(f) = 0 /\ f[5] = 0

MagLt(a, b) == Mag(a) < Mag(b) \/ (Mag(a) = Mag(b) /\ a[5] < b[5])

\* Python's a < b on floats: false whenever a NaN is involved, -0.0 = 0.0.
FLt(a, b) ==
    /\ ~IsNaN(a)
    /\ ~IsNaN(b)
    /\ IF Neg(a) /\ ~Neg(b) THEN ~(IsZero(a) /\ IsZero(b))
       ELSE IF ~Neg(a) /\ Neg(b) THEN FALSE
       ELSE IF Neg(a) THEN MagLt(b, a)
       ELSE MagLt(a, b)

FGt(a, b) == FLt(b, a)

\* Python's a == b on floats
FEq(a, b) == ~IsNaN(a) /\ ~IsNaN(b) /\ ~FLt(a, b) /\ ~FLt(b, a)

F0 == <<0, 0, 0, 0, 0>>

F1 == <<63, 128, 0, 0, 0>>

\* The binary32 pattern after b, as a big-endian increment.
NextPattern(b) ==
    IF b[4] < 255 THEN <<b[1], b[2], b[3], b[4] + 1>>
    ELSE IF b[3] < 255 THEN <<b[1], b[2], b[3] + 1, 0>>
    ELSE IF b[2] < 255 THEN <<b[1], b[2] + 1, 0, 0>>
    ELSE <<b[1] + 1, 0, 0, 0>>

\* struct.pack('>f', f): the double rounded to the nearest binary32, ties to
\* even; a NaN or an infinity keeps its pattern. The result [exc, bytes]:
\* a finite double that rounds past the largest binary32 is an OverflowError.
PackF32(f) ==
    LET b == <<f[1], f[2], f[3], f[4]>>
        up == f[5] > HalfUlp \/ (f[5] = HalfUlp /\ f[4] % 2 = 1)
    IN  IF Mag(f) >= InfMag \/ ~up THEN [exc |-> "none", bytes |-> b]
        ELSE IF Mag(f) + 1 >= InfMag THEN [exc |-> "OverflowError", bytes |-> <<>>]
        ELSE [exc |-> "none", bytes |-> NextPattern(b)]

\* struct.unpack('>f', b)[0]: a binary32 widens exactly
UnpackF32(b) == <<b[1], b[2], b[3], b[4], 0>>

\* Python's min(chs): the first element unless a later one compares less.
RECURSIVE PyMinFrom(_, _)
PyMinFrom(cur, s) ==
    IF s = <<>> THEN cur
    ELSE Once(cur, LAMBDA c :
            PyMinFrom(IF FLt(Head(s), c) THEN Head(s) ELSE c, Tail(s)))

PyMin(s) == PyMinFrom(Head(s), Tail(s))

\* Python's max(chs): the first element unless a later one compares greater.
RECURSIVE PyMaxFrom(_, _)
PyMaxFrom(cur, s) ==
    IF s = <<>> THEN cur
    ELSE Once(cur, LAMBDA c :
            PyMaxFrom(IF FGt(Head(s), c) THEN Head(s) ELSE c, Tail(s)))

PyMax(s) == PyMaxFrom(Head(s), Tail(s))

(* ------------------------------- codec -------------------------------- *)

\* The two asserts of _get_dim
GetDimOk(matrix) ==
    /\ Len(matrix) > 0
    /\ \A i \in 1..Len(matrix) : Len(matrix[i]) = Len(matrix[1])

_get_dim(matrix) ==
    IF GetDimOk(matrix)
    THEN [exc |-> "none", dim |-> <<Len(matrix), Len(matrix[1])>>]
    ELSE [exc |-> "AssertionError", dim |-> <<0, 0>>]

\* chs = (ch for row in matrix for color in row for ch in color)
Channels(matrix) == Concat(Concat(matrix))

\* struct.pack of the channels in order: the bytes of all of them, or the
\* exception of the first it cannot pack
PackChannels(chs) ==
    Once([i \in 1..Len(chs) |-> PackF32(chs[i])], LAMBDA packed :
        LET bad == {i \in 1..Len(chs) : packed[i].exc # "none"}
        IN  IF bad = {}
            THEN [exc |-> "none",
                  bytes |-> Concat([i \in 1..Len(chs) |-> packed[i].bytes])]
            ELSE packed[CHOOSE i \in bad : \A j \in bad : i <= j])

\* _pack_udp writing num_cols before num_rows
PackUdpColsFirst(matrix, msg_seq) ==
    IF IsNone(matrix) THEN [exc |-> "none", data |-> PackU32(msg_seq)]
    ELSE Once(_get_dim(matrix[1]), LAMBDA d :
            IF d.exc # "none" THEN [exc |-> d.exc, data |-> <<>>]
            ELSE Once(Once(Channels(matrix[1]), PackChannels), LAMBDA chs :
                    IF chs.exc # "none" THEN [exc |-> chs.exc, data |-> <<>>]
                    ELSE [exc |-> "none",
                          data |-> PackU32(msg_seq) \o PackU32(U32(d.dim[2]))
                                      \o PackU32(U32(d.dim[1])) \o chs.bytes]))

\* _pack_udp(matrix, msg_seq), matrix None or a matrix: [exc, data]
_pack_udp(matrix, msg_seq) ==
    IF IsNone(matrix) THEN [exc |-> "none", data |-> PackU32(msg_seq)]
    ELSE Once(_get_dim(matrix[1]), LAMBDA d :
            IF d.exc # "none" THEN [exc |-> d.exc, data |-> <<>>]
            ELSE Once(Once(Channels(matrix[1]), PackChannels), LAMBDA chs :
                    IF chs.exc # "none" THEN [exc |-> chs.exc, data |-> <<>>]
                    ELSE [exc |-> "none",
                          data |-> PackU32(msg_seq) \o PackU32(U32(d.dim[1]))
                                      \o PackU32(U32(d.dim[2])) \o chs.bytes]))

\* num_chs != 3 * num_rows * num_cols on Python's unbounded integers, for
\* num_chs below 2^16 (a datagram holds at most 4096 bytes).
CountMatches(num_chs, num_rows, num_cols) ==
    IF num_rows = <<0, 0>> \/ num_cols = <<0, 0>> THEN num_chs = 0
    ELSE IF num_rows[1] > 0 \/ num_cols[1] > 0 THEN FALSE
    ELSE IF num_rows[2] > num_chs \/ num_cols[2] > num_chs THEN FALSE
    ELSE 3 * num_rows[2] * num_cols[2] = num_chs

\* struct.unpack of the num_chs floats that follow the two u32
UnpackChannels(payload, num_chs) ==
    [i \in 1..num_chs |-> UnpackF32(SubSeq(payload, 8 + 4 * i - 3, 8 + 4 * i))]

Failed(e) == [exc |-> e, matrix |-> NoneVal, msg_seq |-> <<0, 0>>]

\* _unpack_udp(data): [exc, matrix, msg_seq]
_unpack_udp(data) ==
    Once(data, LAMBDA rx :
        IF Len(rx) # 4 /\ Len(rx) < 12 THEN Failed("RuntimeError")
        ELSE LET header == SubSeq(rx, 1, 4)
                 payload == SubSeq(rx, 5, Len(rx))
                 msg_seq == UnpackU32(header)
                 num_chs == (Len(payload) - 8) \div 4
                 num_rows == UnpackU32(SubSeq(payload, 1, 4))
                 num_cols == UnpackU32(SubSeq(payload, 5, 8))
             IN  IF Len(payload) = 0
                 THEN [exc |-> "none", matrix |-> NoneVal, msg_seq |-> msg_seq]
                 ELSE IF Len(payload) % 4 # 0 THEN Failed("RuntimeError")
                 ELSE IF ~CountMatches(num_chs, num_rows, num_cols)
                 THEN Failed("RuntimeError")
                 ELSE Once(UnpackChannels(payload, num_chs), LAMBDA chs :
                         IF chs = <<>> THEN Failed("ValueError")
                         ELSE IF FLt(PyMin(chs), F0) \/ FGt(PyMax(chs), F1)
                         THEN Failed("RuntimeError")
                         ELSE LET nc == num_cols[2]
                                  colors == [i \in 1..(num_chs \div 3) |->
                                                SubSeq(chs, 3 * i - 2, 3 * i)]
                                  matrix == [r \in 1..(Len(colors) \div nc) |->
                                                SubSeq(colors, (r - 1) * nc + 1,
                                                       r * nc)]
                              IN  [exc |-> "none", matrix |-> Some(matrix),
                                   msg_seq |-> msg_seq]))

(* ------------------------------ drivers ------------------------------- *)

\* A driver object is a record
\*   kind            "fake" (FakeDisplay) or "spi" (LocalLedDisplay)
\*   gamma_correct   LocalLedDisplay._gamma_correct
\*   dim             _dim
\*   current_matrix  _current_matrix
\*   t0              whether _spi_xfer_profiler._t0 is set (a measurement is open)
\*   spi             the bytes of the last _spi.xfer

\* all_off_matrix(dim): dim[1] rows of dim[0] cells (Python indices)
all_off_matrix(dim) == Repeat(Repeat(<<F0, F0, F0>>, dim[1]), dim[2])

\* The result of ch ** 2.3 on a negative float is a complex number.
Complex == <<-1, 0, 0, 0, 0>>

IsComplex(ch) == ch[1] < 0

\* ch ** 2.3 (walle.py line 241), tabulated for the channel values the model
\* uses; no value is chosen for any other channel.
Pow23(ch) ==
    IF IsNaN(ch) THEN ch
    ELSE IF IsZero(ch) THEN F0
    ELSE IF Neg(ch) THEN Complex
    ELSE IF ch = F1 THEN F1
    ELSE IF ch = <<127, 128, 0, 0, 0>> THEN ch
    ELSE IF ch = <<63, 192, 0, 0, 0>> THEN <<64, 34, 160, 62, 445464596>>
    ELSE IF ch = <<63, 0, 0, 0, 0>> THEN <<62, 79, 239, 197, 483283774>>
    ELSE IF ch = <<63, 64, 0, 0, 0>> THEN <<63, 4, 23, 228, 67363985>>
    ELSE IF ch = <<62, 128, 0, 0, 0>> THEN <<61, 40, 229, 162, 330912622>>
    ELSE IF ch = <<61, 204, 204, 204, 429496730>> THEN <<59, 164, 58, 161, 476746328>>
    ELSE IF ch = <<61, 204, 204, 205, 0>> THEN <<59, 164, 58, 162, 137913033>>
    ELSE CHOOSE v \in {} : TRUE

_gamma_corrected(matrix) ==
    [i \in 1..Len(matrix) |->
        [j \in 1..Len(matrix[i]) |->
            [k \in 1..3 |-> Pow23(matrix[i][j][k])]]]

Reverse(s) == [i \in 1..Len(s) |-> s[Len(s) + 1 - i]]

\* int(ch * 256) for 0 <= ch <= 1.0, without the min(..., 255)
QuantizeNoCap(ch) ==
    LET e == Mag(ch) \div 8388608
        m == 8388608 + (Mag(ch) % 8388608)
    IN  IF e = 0 \/ 142 - e > 24 THEN 0 ELSE m \div (2 ^ (142 - e))

\* min(int(ch * 256), 255) for 0 <= ch <= 1.0
Quantize(ch) ==
    LET e == Mag(ch) \div 8388608
        m == 8388608 + (Mag(ch) % 8388608)
        q == IF e = 0 \/ 142 - e > 24 THEN 0 ELSE m \div (2 ^ (142 - e))
    IN  IF q < 255 THEN q ELSE 255

\* The assert of _flatten scans the channels in order: the first channel that
\* is no real number makes the comparison a TypeError, the first real one that
\* is not in [0, 1] an AssertionError.
RECURSIVE RangeCheck(_)
RangeCheck(chs) ==
    IF chs = <<>> THEN "none"
    ELSE IF IsComplex(Head(chs)) THEN "TypeError"
    ELSE IF IsNaN(Head(chs)) \/ FLt(Head(chs), F0) \/ FGt(Head(chs), F1)
    THEN "AssertionError"
    ELSE RangeCheck(Tail(chs))

\* _flatten that reverses the order of the rows and no row in itself
FlattenNoSnake(matrix) ==
    Once(Concat(Concat(Reverse(matrix))), LAMBDA flattened_rgb :
        Once(RangeCheck(flattened_rgb), LAMBDA e :
            IF e # "none" THEN [exc |-> e, bytes |-> <<>>]
            ELSE [exc |-> "none",
                  bytes |-> [i \in 1..Len(flattened_rgb) |->
                                Quantize(flattened_rgb[i])]]))

\* LocalLedDisplay._flatten(matrix): [exc, bytes]
_flatten(matrix) ==
    LET rev == Reverse(matrix)
        snaked_rows == [i \in 1..Len(rev) |->
                           IF (i - 1) % 2 = 0 THEN rev[i] ELSE Reverse(rev[i])]
    IN  Once(Concat(Concat(snaked_rows)), LAMBDA flattened_rgb :
            Once(RangeCheck(flattened_rgb), LAMBDA e :
                IF e # "none" THEN [exc |-> e, bytes |-> <<>>]
                ELSE [exc |-> "none",
                      bytes |-> [i \in 1..Len(flattened_rgb) |->
                                    Quantize(flattened_rgb[i])]]))

\* set without `assert _get_dim(matrix) == self._dim`: the frame is stored and
\* written whatever its dimensions
DriverSetUnchecked(driver, matrix) ==
    LET stored == [driver EXCEPT !.current_matrix = matrix]
    IN  IF driver.kind = "fake"
        THEN [exc |-> "none", driver |-> stored, xfers |-> 0]
        ELSE IF driver.t0
        THEN [exc |-> "AssertionError", driver |-> stored, xfers |-> 0]
        ELSE Once(_flatten(IF driver.gamma_correct THEN _gamma_corrected(matrix)
                           ELSE matrix), LAMBDA flat :
                IF flat.exc # "none"
                THEN [exc |-> flat.exc, driver |-> [stored EXCEPT !.t0 = TRUE],
                      xfers |-> 0]
                ELSE [exc |-> "none", driver |-> [stored EXCEPT !.spi = flat.bytes],
                      xfers |-> 1])

\* FakeDisplay.set / LocalLedDisplay.set: [exc, driver, xfers], xfers the number
\* of _spi.xfer calls made. A failed assert of IntervalProfiler.start, or an
\* exception inside the measured section, leaves what was assigned before it.
DriverSet(driver, matrix) ==
    LET stored == [driver EXCEPT !.current_matrix = matrix]
    IN  IF _get_dim(matrix) # [exc |-> "none", dim |-> driver.dim]
        THEN [exc |-> "AssertionError", driver |-> driver, xfers |-> 0]
        ELSE IF driver.kind = "fake"
        THEN [exc |-> "none", driver |-> stored, xfers |-> 0]
        ELSE IF driver.t0
        THEN [exc |-> "AssertionError", driver |-> stored, xfers |-> 0]
        ELSE Once(_flatten(IF driver.gamma_correct THEN _gamma_corrected(matrix)
                           ELSE matrix), LAMBDA flat :
                IF flat.exc # "none"
                THEN [exc |-> flat.exc, driver |-> [stored EXCEPT !.t0 = TRUE],
                      xfers |-> 0]
                ELSE [exc |-> "none", driver |-> [stored EXCEPT !.spi = flat.bytes],
                      xfers |-> 1])

\* get that returns the frame of construction, whatever set stored since
DriverGetInitial(driver) == all_off_matrix(driver.dim)

\* FakeDisplay.get / LocalLedDisplay.get
DriverGet(driver) == driver.current_matrix

\* Which object set keeps as _current_matrix when it is handed the object arg:
\* the argument itself, as if set had no copy.deepcopy
KeptBySetNoCopy(arg) == arg

\* Which object set keeps as _current_matrix when it is handed the object arg:
\* copy.deepcopy(matrix), an object the driver made, whatever arg is
KeptBySet(arg) == "own"

\* Which object get returns when _current_matrix is the object cur:
\* `return self._current_matrix`, that very object
ReturnedByGet(cur) == cur

\* FakeDisplay.__init__ / LocalLedDisplay.__init__: the fields, then
\* self.set(all_off_matrix(self.dim())): [exc, driver, xfers]
DriverNew(kind, gamma_correct, num_rows, num_cols) ==
    DriverSet([kind |-> kind, gamma_correct |-> gamma_correct,
               dim |-> <<num_rows, num_cols>>, current_matrix |-> NoneVal,
               t0 |-> FALSE, spi |-> <<>>],
              all_off_matrix(<<num_rows, num_cols>>))

\* FakeDisplay(num_rows, num_cols), LocalLedDisplay(num_rows=..., num_cols=...)
\* and LocalLedDisplay(gamma_correct=False, ...), named as create_display names
\* them: [exc, driver, xfers]
Construct(target, num_rows, num_cols) ==
    IF target = "spi" THEN DriverNew("spi", TRUE, num_rows, num_cols)
    ELSE IF target = "spi_no_gamma" THEN DriverNew("spi", FALSE, num_rows, num_cols)
    ELSE DriverNew("fake", FALSE, num_rows, num_cols)

\* create_display(target) for the local targets, with the default dimensions
\* scaled to Dim x Dim
create_display(target) ==
    IF target = "spi" THEN DriverNew("spi", TRUE, Dim, Dim).driver
    ELSE IF target = "spi_no_gamma" THEN DriverNew("spi", FALSE, Dim, Dim).driver
    ELSE DriverNew("fake", FALSE, Dim, Dim).driver

(* ------------------------------- server ------------------------------- *)

\* `while num_recv <= 10`: a loop that receives one datagram more
BatchCapInclusive == 10 + 1

\* `while num_recv < 10` of _process_requests
BatchCap == 10

\* _parse_request_data of a server that takes a frame of any dimensions
ParseRequestAnyDim(data, driver) == _unpack_udp(data)

\* _parse_request_data of a server that gave sequence numbers a meaning: it
\* rejects a request that does not carry the number 0
ParseRequestSeqChecked(data, driver) ==
    Once(_unpack_udp(data), LAMBDA u :
        IF u.exc = "none" /\ u.msg_seq # <<0, 0>> THEN Failed("RuntimeError")
        ELSE IF u.exc = "none" /\ Truthy(u.matrix)
        THEN Once(_get_dim(u.matrix[1]), LAMBDA dim :
                IF dim.exc # "none" THEN Failed(dim.exc)
                ELSE IF dim.dim # driver.dim THEN Failed("RuntimeError")
                ELSE u)
        ELSE u)

\* _UdpLedDisplayServer._parse_request_data(data): [exc, matrix, msg_seq]
_parse_request_data(data, driver) ==
    Once(_unpack_udp(data), LAMBDA u :
        IF u.exc = "none" /\ Truthy(u.matrix)
        THEN Once(_get_dim(u.matrix[1]), LAMBDA dim :
                IF dim.exc # "none" THEN Failed(dim.exc)
                ELSE IF dim.dim # driver.dim THEN Failed("RuntimeError")
                ELSE u)
        ELSE u)

\* The receive loop of _process_requests, from the state r =
\* [rx, num_recv, requests, last, received, exc]: rx the socket's pending
\* datagrams, last the index in requests of last_update_request (0: None),
\* received the datagrams taken off the socket. An exception that is no
\* RuntimeError leaves the loop and _process_requests.
RECURSIVE RecvLoop(_, _)
RecvLoop(state, driver) ==
    Once(state, LAMBDA r :
        IF r.num_recv >= BatchCap \/ r.rx = <<>> THEN r
        ELSE Once(_parse_request_data(Head(r.rx).data, driver), LAMBDA p :
                LET dg == Head(r.rx)
                    got == [r EXCEPT !.rx = Tail(r.rx),
                                     !.num_recv = r.num_recv + 1,
                                     !.received = Append(r.received, dg)]
                    request == [client_addr |-> dg.addr, matrix |-> p.matrix,
                                msg_seq |-> p.msg_seq]
                    n == Len(r.requests) + 1
                IN  IF p.exc = "RuntimeError" THEN RecvLoop(got, driver)
                    ELSE IF p.exc # "none" THEN [got EXCEPT !.exc = p.exc]
                    ELSE RecvLoop([got EXCEPT
                                     !.requests = Append(r.requests, request),
                                     !.last = IF Truthy(p.matrix) THEN n ELSE r.last],
                                  driver)))

\* What the tracking of _process_requests logs for a request with msg_seq from
\* client_addr, when the server last tracked last_msg_seq from last_client:
\* the new client, then the repeated or the missing messages
TrackingLog(client_addr, msg_seq, last_client, last_msg_seq) ==
    LET known == IF last_client # client_addr THEN NoneVal ELSE last_msg_seq
    IN  (IF last_client # client_addr THEN <<"new update client">> ELSE <<>>)
        \o (IF IsNone(known) THEN <<>>
            ELSE IF msg_seq = known THEN <<"repeated message">>
            ELSE IF msg_seq # U32Inc(known) THEN <<"requests missing">>
            ELSE <<>>)

\* The log records of the events, in order, for request number i of the batch
LogOf(events, i) == [k \in 1..Len(events) |-> [event |-> events[k], at |-> i]]

\* The acknowledge loop of _process_requests from request i on, on the state a =
\* [driver, last_update_client, last_update_msg_seq, sets, acks, xfers, exc, logs]:
\* sets the arguments of the driver.set calls, acks the datagrams sent, logs
\* what the loop logged.
RECURSIVE AckLoop(_, _, _, _)
AckLoop(requests, last, i, state) ==
    IF i > Len(requests) THEN state
    ELSE Once(state, LAMBDA a :
           LET request == requests[i]
               tracked == [a EXCEPT !.last_update_client = request.client_addr,
                                    !.last_update_msg_seq = request.msg_seq,
                                    !.logs = a.logs \o LogOf(
                                        TrackingLog(request.client_addr,
                                                    request.msg_seq,
                                                    a.last_update_client,
                                                    a.last_update_msg_seq)
                                        \o (IF i # last THEN <<"request skipped">>
                                            ELSE <<>>), i)]
               applied(res) ==
                   [tracked EXCEPT !.driver = res.driver,
                                   !.sets = Append(a.sets, request.matrix[1]),
                                   !.xfers = a.xfers + res.xfers,
                                   !.exc = IF res.exc = "TimeoutError" THEN "none"
                                           ELSE res.exc]
           IN  Once(IF ~Truthy(request.matrix) THEN a
                    ELSE IF i # last THEN tracked
                    ELSE Once(DriverSet(a.driver, request.matrix[1]), applied),
                    LAMBDA b :
                      IF b.exc # "none" THEN b
                      ELSE Once(_pack_udp(Some(DriverGet(b.driver)),
                                          request.msg_seq), LAMBDA ack :
                             IF ack.exc # "none" THEN [b EXCEPT !.exc = ack.exc]
                             ELSE AckLoop(requests, last, i + 1,
                                    [b EXCEPT !.acks = Append(b.acks,
                                        [data |-> ack.data,
                                         addr |-> request.client_addr])]))))

\* The first request of requests that carries a frame, 0 when none does
FirstUpdate(requests) ==
    LET ups == {k \in 1..Len(requests) : Truthy(requests[k].matrix)}
    IN  IF ups = {} THEN 0 ELSE CHOOSE k \in ups : \A j \in ups : k <= j

\* _process_requests keeping the first update request of the batch as
\* last_update_request, as if `if matrix:` of the receive loop assigned it
\* only while it is None
ProcessRequestsFirstWins(rx, driver, client, msg_seq) ==
    Once(RecvLoop([rx |-> rx, num_recv |-> 0, requests |-> <<>>, last |-> 0,
                   received |-> <<>>, exc |-> "none"], driver), LAMBDA r :
        Once(IF r.exc # "none"
             THEN [driver |-> driver, exc |-> r.exc, sets |-> <<>>, acks |-> <<>>,
                   last_update_client |-> client, last_update_msg_seq |-> msg_seq,
                   xfers |-> 0, logs |-> <<>>]
             ELSE AckLoop(r.requests, FirstUpdate(r.requests), 1,
                          [driver |-> driver, exc |-> "none", sets |-> <<>>,
                           acks |-> <<>>, last_update_client |-> client,
                           last_update_msg_seq |-> msg_seq, xfers |-> 0,
                           logs |-> <<>>]),
             LAMBDA a :
               [rx |-> r.rx, received |-> r.received, exc |-> a.exc,
                driver |-> a.driver,
                last_update_client |-> a.last_update_client,
                last_update_msg_seq |-> a.last_update_msg_seq,
                sets |-> a.sets, acks |-> a.acks, xfers |-> a.xfers,
                logs |-> a.logs]))

\* _process_requests tracking the client and the sequence number of every
\* request, as if the tracking stood outside `if matrix:`
ProcessRequestsTrackQueries(rx, driver, client, msg_seq) ==
    Once(RecvLoop([rx |-> rx, num_recv |-> 0, requests |-> <<>>, last |-> 0,
                   received |-> <<>>, exc |-> "none"], driver), LAMBDA r :
        Once(IF r.exc # "none"
             THEN [driver |-> driver, exc |-> r.exc, sets |-> <<>>, acks |-> <<>>,
                   last_update_client |-> client, last_update_msg_seq |-> msg_seq,
                   xfers |-> 0, logs |-> <<>>]
             ELSE AckLoop(r.requests, r.last, 1,
                          [driver |-> driver, exc |-> "none", sets |-> <<>>,
                           acks |-> <<>>, last_update_client |-> client,
                           last_update_msg_seq |-> msg_seq, xfers |-> 0,
                           logs |-> <<>>]),
             LAMBDA a :
               LET n == Len(a.acks)
               IN  [rx |-> r.rx, received |-> r.received, exc |-> a.exc,
                    driver |-> a.driver,
                    last_update_client |->
                        IF n = 0 THEN a.last_update_client
                        ELSE r.requests[n].client_addr,
                    last_update_msg_seq |->
                        IF n = 0 THEN a.last_update_msg_seq
                        ELSE r.requests[n].msg_seq,
                    sets |-> a.sets, acks |-> a.acks, xfers |-> a.xfers,
                    logs |-> a.logs]))

\* _process_requests emptying the socket once it has received its batch
ProcessRequestsDropRest(rx, driver, client, msg_seq) ==
    Once(RecvLoop([rx |-> rx, num_recv |-> 0, requests |-> <<>>, last |-> 0,
                   received |-> <<>>, exc |-> "none"], driver), LAMBDA r :
        Once(IF r.exc # "none"
             THEN [driver |-> driver, exc |-> r.exc, sets |-> <<>>, acks |-> <<>>,
                   last_update_client |-> client, last_update_msg_seq |-> msg_seq,
                   xfers |-> 0, logs |-> <<>>]
             ELSE AckLoop(r.requests, r.last, 1,
                          [driver |-> driver, exc |-> "none", sets |-> <<>>,
                           acks |-> <<>>, last_update_client |-> client,
                           last_update_msg_seq |-> msg_seq, xfers |-> 0,
                           logs |-> <<>>]),
             LAMBDA a :
               [rx |-> <<>>, received |-> r.received, exc |-> a.exc,
                driver |-> a.driver,
                last_update_client |-> a.last_update_client,
                last_update_msg_seq |-> a.last_update_msg_seq,
                sets |-> a.sets, acks |-> a.acks, xfers |-> a.xfers,
                logs |-> a.logs]))

\* _UdpLedDisplayServer._process_requests() on the pending datagrams rx:
\* [rx, received, exc, driver, last_update_client, last_update_msg_seq,
\*  sets, acks, xfers, logs]
_process_requests(rx, driver, client, msg_seq) ==
    Once(RecvLoop([rx |-> rx, num_recv |-> 0, requests |-> <<>>, last |-> 0,
                   received |-> <<>>, exc |-> "none"], driver), LAMBDA r :
        Once(IF r.exc # "none"
             THEN [driver |-> driver, exc |-> r.exc, sets |-> <<>>, acks |-> <<>>,
                   last_update_client |-> client, last_update_msg_seq |-> msg_seq,
                   xfers |-> 0, logs |-> <<>>]
             ELSE AckLoop(r.requests, r.last, 1,
                          [driver |-> driver, exc |-> "none", sets |-> <<>>,
                           acks |-> <<>>, last_update_client |-> client,
                           last_update_msg_seq |-> msg_seq, xfers |-> 0,
                           logs |-> <<>>]),
             LAMBDA a :
               [rx |-> r.rx, received |-> r.received, exc |-> a.exc,
                driver |-> a.driver,
                last_update_client |-> a.last_update_client,
                last_update_msg_seq |-> a.last_update_msg_seq,
                sets |-> a.sets, acks |-> a.acks, xfers |-> a.xfers,
                logs |-> a.logs]))

(* ------------------------------- client ------------------------------- *)

\* `while num_flushed < 10` of _request_impl
FlushCap == 10

\* UdpLedDisplay.__init__: the fields; rx is the datagrams pending on socket,
\* get_t0 whether _get_time_profiler._t0 is set
UdpNew(num_rows, num_cols, synchronous) ==
    [dim |-> <<num_rows, num_cols>>, synchronous |-> synchronous,
     msg_seq |-> <<0, 0>>, num_total_timeouts |-> 0, get_t0 |-> FALSE,
     rx |-> <<>>]

\* The wait loop of _request_impl over q, the datagrams select returns before
\* time_left runs out: [exc, ret, rest], rest what was not received
RECURSIVE WaitLoop(_, _)
WaitLoop(q, tx_msg_seq) ==
    IF q = <<>> THEN [exc |-> "TimeoutError", ret |-> NoneVal, rest |-> <<>>]
    ELSE Once(_unpack_udp(Head(q)), LAMBDA u :
             IF u.exc = "RuntimeError" THEN WaitLoop(Tail(q), tx_msg_seq)
             ELSE IF u.exc # "none"
             THEN [exc |-> u.exc, ret |-> NoneVal, rest |-> Tail(q)]
             ELSE IF u.msg_seq = tx_msg_seq
             THEN [exc |-> "none", ret |-> u.matrix, rest |-> Tail(q)]
             ELSE WaitLoop(Tail(q), tx_msg_seq))

\* A flush loop with no `num_flushed < 10`: it reads until nothing is pending
FlushLoopNoCap(rx, num_flushed) == <<>>

\* The flush loop of _request_impl after num_flushed reads, on the datagrams rx
\* pending on the socket: one recvfrom per turn while select returns the
\* socket; what it leaves pending
RECURSIVE FlushLoop(_, _)
FlushLoop(rx, num_flushed) ==
    IF num_flushed >= FlushCap \/ rx = <<>> THEN rx
    ELSE FlushLoop(Tail(rx), num_flushed + 1)

\* UdpLedDisplay._request_impl(matrix, wait_for_ack), matrix None or a matrix:
\* [exc, ret, client, sent, timed_out]. arrivals are the datagrams that reach
\* the socket after the request is sent, in_time how many datagrams select
\* returns before time_left runs out.
_request_impl(client, matrix, wait_for_ack, arrivals, in_time) ==
    LET d == _get_dim(matrix[1])
        tx_msg_seq == client.msg_seq
        c1 == [client EXCEPT !.msg_seq = U32Inc(client.msg_seq)]
        tx == _pack_udp(matrix, tx_msg_seq)
        q == client.rx \o arrivals
        w == WaitLoop(SubSeq(q, 1, in_time), tx_msg_seq)
        out == [exc |-> "none", ret |-> NoneVal, client |-> c1,
                sent |-> <<tx.data>>, timed_out |-> FALSE]
    IN  IF ~IsNone(matrix) /\ (d.exc # "none" \/ d.dim # client.dim)
        THEN [out EXCEPT !.exc = "AssertionError", !.client = client, !.sent = <<>>]
        ELSE IF tx.exc # "none"
        THEN [out EXCEPT !.exc = tx.exc, !.sent = <<>>]
        ELSE IF wait_for_ack
        THEN [out EXCEPT !.exc = w.exc, !.ret = w.ret,
                         !.client.rx = w.rest \o SubSeq(q, in_time + 1, Len(q))]
        ELSE [out EXCEPT !.client.rx = FlushLoop(client.rx, 0) \o arrivals]

\* UdpLedDisplay._request(matrix, wait_for_ack)
_request(client, matrix, wait_for_ack, arrivals, in_time) ==
    LET r == _request_impl(client, matrix, wait_for_ack, arrivals, in_time)
    IN  IF r.exc = "TimeoutError"
        THEN [r EXCEPT !.exc = "none", !.ret = NoneVal, !.timed_out = TRUE,
                       !.client.num_total_timeouts = r.client.num_total_timeouts + 1]
        ELSE r

\* UdpLedDisplay.set(matrix)
UdpSet(client, matrix, arrivals, in_time) ==
    [_request(client, Some(matrix), client.synchronous, arrivals, in_time)
        EXCEPT !.ret = NoneVal]

\* UdpLedDisplay.get(): _get_time_profiler.measure() around _request(None, True);
\* an exception inside the measured section leaves _t0 set
UdpGet(client, arrivals, in_time) ==
    LET r == _request(client, NoneVal, TRUE, arrivals, in_time)
    IN  IF client.get_t0
        THEN [exc |-> "AssertionError", ret |-> NoneVal, client |-> client,
              sent |-> <<>>, timed_out |-> FALSE]
        ELSE IF r.exc # "none" THEN [r EXCEPT !.client.get_t0 = TRUE]
        ELSE r

(* ------------------------------ state --------------------------------- *)

VARIABLES
    \* the codec under test: the arguments of a call and what it returned
    codec_matrix,       \* None or the matrix handed to _pack_udp
    codec_seq,          \* the msg_seq handed to _pack_udp
    codec_data,         \* the buffer handed to _unpack_udp
    codec_op,           \* "idle", "init", "packed" or "unpacked"
    codec_src,          \* "pack": the buffer is _pack_udp's result; "raw": any bytes
    codec_ret,          \* the record the last call returned
    \* the display a program created with create_display(target)
    target,             \* "fake", "spi", "spi_no_gamma" or "udp"
    driver,             \* the FakeDisplay / LocalLedDisplay object (see drivers)
    \* the server, _UdpLedDisplayServer
    srv_rx,             \* the datagrams pending on _socket: [data, addr]
    srv_exc,            \* "none", or the exception that ended serve_forever
    last_update_client, \* _last_update_client ("None" or an address)
    last_update_msg_seq,\* _last_update_msg_seq (None or a u32)
    \* what the last call of _process_requests did
    batch_pre,          \* [driver, last_update_client, last_update_msg_seq] before it
    batch_rx,           \* the datagrams it received, in receipt order
    batch_set,          \* the arguments of its driver.set calls
    batch_acks,         \* the datagrams it sent: [data, addr]
    batch_log,          \* what its acknowledge loop logged: [event, at]
    net_sent,           \* the number of datagrams hosts have sent to the server
    \* a program that calls set and get on the display it created
    client,             \* the UdpLedDisplay object (see client), None otherwise
    call,               \* the last call: its argument, what it did and returned
    held,               \* the frame object the program holds a reference to
    wait                \* a UdpLedDisplay call that waits for its acknowledgment

codec_vars == <<codec_matrix, codec_seq, codec_data, codec_op, codec_src, codec_ret>>

server_vars == <<srv_rx, srv_exc, last_update_client, last_update_msg_seq>>

batch_vars == <<batch_pre, batch_rx, batch_set, batch_acks, batch_log>>

display_vars == <<target, driver, client, call>>

caller_vars == <<held, wait>>

vars == <<codec_vars, display_vars, server_vars, batch_vars, net_sent, caller_vars>>

\* The codec is not under test.
CodecIdle ==
    /\ codec_matrix = NoneVal
    /\ codec_seq = <<0, 0>>
    /\ codec_data = <<>>
    /\ codec_op = "idle"
    /\ codec_src = "raw"
    /\ codec_ret = [exc |-> "none"]

NoCall == [op |-> "none"]

\* The program holds no frame yet; cur names the object that is the driver's
\* _current_matrix: "own", an object the driver made, or "frame", the program's
NoHeld == [val |-> <<>>, obj |-> "none", cur |-> "own"]

\* No UdpLedDisplay call is in its wait loop
NoWait == [pc |-> "idle", op |-> "none", calls |-> 0, tx_msg_seq |-> <<0, 0>>,
           got |-> NoneVal, elapsed |-> 0, time_left |-> 0, deadline |-> 0]

NoBatch == [driver |-> NoneVal, last_update_client |-> "None",
            last_update_msg_seq |-> NoneVal]

\* _UdpLedDisplayServer.__init__, before any datagram arrived
ServerInit ==
    /\ srv_rx = <<>>
    /\ srv_exc = "none"
    /\ last_update_client = "None"
    /\ last_update_msg_seq = NoneVal
    /\ batch_pre = NoBatch
    /\ batch_rx = <<>>
    /\ batch_set = <<>>
    /\ batch_acks = <<>>
    /\ batch_log = <<>>
    /\ net_sent = 0
    /\ held = NoHeld
    /\ wait = NoWait

(* --------------------------- codec: inputs ---------------------------- *)

\* The largest number of rows and of columns of a matrix handed to _pack_udp,
\* and the largest number of floats in a buffer handed to _unpack_udp.
MaxRows == 2

MaxCols == 2

MaxChs == 6

FHalf == <<63, 0, 0, 0, 0>>

FOneAndHalf == <<63, 192, 0, 0, 0>>

FMinusOne == <<191, 128, 0, 0, 0>>

FNegZero == <<128, 0, 0, 0, 0>>

FNaN == <<127, 192, 0, 0, 0>>

FInf == <<127, 128, 0, 0, 0>>

\* 0.1, which no binary32 holds exactly
FTenth == <<61, 204, 204, 204, 429496730>>

\* rows x cols, the first channel of the first cell u, every other channel v
MatrixOf(rows, cols, u, v) ==
    IF cols = 0 THEN Repeat(<<>>, rows)
    ELSE <<(<< <<u, v, v>> >> \o Repeat(<<v, v, v>>, cols - 1))>>
            \o Repeat(Repeat(<<v, v, v>>, cols), rows - 1)

SeqInputs == {<<0, 0>>, <<0, 7>>, <<0, 65535>>, <<1, 0>>, <<65535, 65535>>}

PackMatrices ==
    {NoneVal, Some(<<>>), Some(<< <<>>, <<FHalf, FHalf, FHalf>> >>)}
    \cup {Some(MatrixOf(r, c, u, v)) :
            r \in 1..MaxRows, c \in 0..MaxCols,
            u \in {F0, FHalf, F1, FTenth, FNegZero, FOneAndHalf, FMinusOne, FNaN},
            v \in {F0, F1, FTenth}}

DimInputs == {<<0, 0>>, <<0, 1>>, <<0, 2>>, <<1, 0>>, <<65535, 65535>>}

\* seq, rows, cols, k floats (the first u, the others v) and j trailing bytes
RawPacket(s, r, c, k, u, v, j) ==
    PackU32(s) \o PackU32(r) \o PackU32(c)
        \o (IF k = 0 THEN <<>>
            ELSE SubSeq(u, 1, 4) \o Concat(Repeat(SubSeq(v, 1, 4), k - 1)))
        \o Repeat(255, j)

RawData ==
    {SubSeq(PackU32(s) \o PackU32(r) \o PackU32(c), 1, n) :
        s \in {<<0, 7>>, <<65535, 65535>>}, r \in DimInputs, c \in DimInputs,
        n \in 0..11}
    \cup {RawPacket(s, r, c, k, u, v, j) :
            s \in {<<0, 7>>, <<65535, 65535>>}, r \in DimInputs, c \in DimInputs,
            k \in 0..MaxChs,
            u \in {F0, FHalf, F1, FOneAndHalf, FMinusOne, FNegZero, FNaN, FInf},
            v \in {FHalf, FMinusOne, FNaN},
            j \in 0..3}

(* --------------------------- codec: actions --------------------------- *)

CodecInit ==
    /\ target = "fake"
    /\ driver = create_display("fake")
    /\ client = NoneVal
    /\ call = NoCall
    /\ ServerInit
    /\ codec_op = "init"
    /\ codec_ret = [exc |-> "none"]
    /\ \/ /\ codec_src = "pack"
          /\ codec_matrix \in PackMatrices
          /\ codec_seq \in SeqInputs
          /\ codec_data = <<>>
       \/ /\ codec_src = "raw"
          /\ codec_matrix = NoneVal
          /\ codec_seq = <<0, 0>>
          /\ codec_data \in RawData

\* tx = _pack_udp(matrix, tx_msg_seq)
Pack ==
    /\ codec_op = "init"
    /\ codec_src = "pack"
    /\ codec_ret' = _pack_udp(codec_matrix, codec_seq)
    /\ codec_data' = codec_ret'.data
    /\ codec_op' = "packed"
    /\ UNCHANGED <<codec_matrix, codec_seq, codec_src>>
    /\ UNCHANGED <<display_vars, server_vars, batch_vars, net_sent, caller_vars>>

\* rx_matrix, rx_msg_seq = _unpack_udp(rx)
Unpack ==
    /\ \/ codec_op = "init" /\ codec_src = "raw"
       \/ codec_op = "packed" /\ codec_ret.exc = "none"
    /\ codec_ret' = _unpack_udp(codec_data)
    /\ codec_op' = "unpacked"
    /\ UNCHANGED <<codec_matrix, codec_seq, codec_data, codec_src>>
    /\ UNCHANGED <<display_vars, server_vars, batch_vars, net_sent, caller_vars>>

CodecNext == Pack \/ Unpack

SpecCodec == CodecInit /\ [][CodecNext]_vars

(* --------------------------- codec: claims ---------------------------- *)

\* 0 <= ch <= 1.0
InUnitRange(ch) == ~IsNaN(ch) /\ ~IsComplex(ch) /\ ~FLt(ch, F0) /\ ~FGt(ch, F1)

\* A Frame: a rectangular grid, rows >= 0 and cols >= 0, every channel in [0, 1]
IsFrame(matrix) ==
    /\ \A i \in 1..Len(matrix) : Len(matrix[i]) = Len(matrix[1])
    /\ \A i \in 1..Len(matrix) : \A j \in 1..Len(matrix[i]) :
          \A k \in 1..3 : InUnitRange(matrix[i][j][k])

\* Python's == on two (None or matrix) values whose channels are no NaN
SameMatrix(a, b) ==
    /\ Len(a) = Len(b)
    /\ a # <<>> =>
          /\ Len(a[1]) = Len(b[1])
          /\ \A i \in 1..Len(a[1]) :
                /\ Len(a[1][i]) = Len(b[1][i])
                /\ \A j \in 1..Len(a[1][i]) :
                      \A k \in 1..3 : FEq(a[1][i][j][k], b[1][i][j][k])

\* C6 (as claimed): for every seq and every valid Frame F, also one with no
\* rows or no columns, and for the empty payload None,
\* _unpack_udp(_pack_udp(F, seq)) returns (F, seq).
C6_RoundTrip ==
    (codec_src = "pack" /\ (IsNone(codec_matrix) \/ IsFrame(codec_matrix[1])))
    => /\ codec_op = "packed" => codec_ret.exc = "none"
       /\ codec_op = "unpacked" =>
             /\ codec_ret.exc = "none"
             /\ codec_ret.msg_seq = codec_seq
             /\ SameMatrix(codec_ret.matrix, codec_matrix)

\* The number of floats the buffer holds after seq, rows and cols
FloatCount(data) == (Len(data) - 12) \div 4

FloatAt(data, i) == UnpackF32(SubSeq(data, 12 + 4 * i - 3, 12 + 4 * i))

\* The four conditions under which decode fails with MalformedPacket
Malformed(data) ==
    \/ Len(data) # 4 /\ Len(data) < 12
    \/ /\ Len(data) >= 12
       /\ \/ (Len(data) - 4) % 4 # 0
          \/ ~CountMatches(FloatCount(data), UnpackU32(SubSeq(data, 5, 8)),
                           UnpackU32(SubSeq(data, 9, 12)))
          \/ \E i \in 1..FloatCount(data) : ~InUnitRange(FloatAt(data, i))

\* C7 (as claimed): _unpack_udp raises RuntimeError exactly for the buffers that
\* are malformed in one of the four ways, decodes every other buffer (the
\* 12-byte packet of a zero-area frame too), and raises nothing else.
C7_DecodeClassification ==
    (codec_src = "raw" /\ codec_op = "unpacked")
    => /\ codec_ret.exc \in {"none", "RuntimeError"}
       /\ codec_ret.exc = "RuntimeError" <=> Malformed(codec_data)
       /\ codec_ret.exc = "none" => codec_ret.msg_seq = UnpackU32(SubSeq(codec_data, 1, 4))

\* b is the big-endian encoding of the u32 u
IsBigEndian(b, u) ==
    /\ Len(b) = 4
    /\ \A i \in 1..4 : b[i] \in 0..255
    /\ b[1] * 256 + b[2] = u[1]
    /\ b[3] * 256 + b[4] = u[2]

\* data is seq, rows, cols, then the cells in row-major order, R, G, B per cell
HasFrameLayout(data, matrix, msg_seq) ==
    LET rows == Len(matrix)
        cols == Len(matrix[1])
    IN  /\ Len(data) = 4 + 8 + 12 * rows * cols
        /\ IsBigEndian(SubSeq(data, 1, 4), msg_seq)
        /\ IsBigEndian(SubSeq(data, 5, 8), U32(rows))
        /\ IsBigEndian(SubSeq(data, 9, 12), U32(cols))
        /\ \A i \in 1..rows : \A j \in 1..cols : \A k \in 1..3 :
              LET at == 12 + 12 * ((i - 1) * cols + (j - 1)) + 4 * (k - 1)
              IN  SubSeq(data, at + 1, at + 4) = PackF32(matrix[i][j][k]).bytes

MaxQueue == 3

\* Two frames of the driven display's dimensions, and a frame whose first
\* channel is a NaN and whose other channels are -1.0
FrameA == MatrixOf(Dim, Dim, FHalf, FHalf)

FrameB == MatrixOf(Dim, Dim, F1, F0)

FrameNaN == MatrixOf(Dim, Dim, FNaN, FMinusOne)

\* A frame with one column more than the driven display
FrameWide == MatrixOf(Dim, Dim + 1, FHalf, FHalf)

Query(s) == _pack_udp(NoneVal, s).data

Update(m, s) == _pack_udp(Some(m), s).data

\* 12 bytes: a sequence number and the dimensions 0 x 0, no channel
ZeroArea(s) == PackU32(s) \o PackU32(<<0, 0>>) \o PackU32(<<0, 0>>)

Garbage == <<1, 2, 3, 4, 5>>

\* What hosts may send to the server: queries, updates and arbitrary bytes.
Datagrams ==
    { [data |-> Query(<<0, 0>>), addr |-> "a2"],
      [data |-> Update(FrameA, <<0, 0>>), addr |-> "a1"],
      [data |-> Update(FrameB, <<0, 1>>), addr |-> "a1"],
      [data |-> Update(FrameA, <<0, 5>>), addr |-> "a2"],
      [data |-> Update(FrameNaN, <<0, 2>>), addr |-> "a2"],
      [data |-> Update(FrameWide, <<0, 3>>), addr |-> "a1"],
      [data |-> ZeroArea(<<0, 4>>), addr |-> "a2"],
      [data |-> Garbage, addr |-> "a1"] }

(* --------------------------- server: actions -------------------------- *)

\* create_display(target); _UdpLedDisplayServer(('', port), driver)
Init ==
    /\ CodecIdle
    /\ target \in {"fake", "spi"}
    /\ driver = create_display(target)
    /\ client = NoneVal
    /\ call = NoCall
    /\ ServerInit

\* A host sends a datagram to the server's port. What the last batch did is
\* kept until then.
Inject ==
    /\ srv_exc = "none"
    /\ Len(srv_rx) < MaxQueue
    /\ \E dg \in Datagrams : srv_rx' = Append(srv_rx, dg)
    /\ batch_pre' = NoBatch
    /\ batch_rx' = <<>>
    /\ batch_set' = <<>>
    /\ batch_acks' = <<>>
    /\ batch_log' = <<>>
    /\ UNCHANGED <<codec_vars, display_vars, caller_vars, srv_exc, last_update_client,
                   last_update_msg_seq, net_sent>>

\* One turn of serve_forever: select returns once a datagram is pending, then
\* _process_requests(); an exception that leaves it ends the server.
ServeForever ==
    /\ srv_exc = "none"
    /\ srv_rx # <<>>
    /\ \E p \in {_process_requests(srv_rx, driver, last_update_client,
                                    last_update_msg_seq)} :
           /\ srv_rx' = p.rx
           /\ srv_exc' = p.exc
           /\ driver' = p.driver
           /\ last_update_client' = p.last_update_client
           /\ last_update_msg_seq' = p.last_update_msg_seq
           /\ batch_pre' = [driver |-> driver,
                            last_update_client |-> last_update_client,
                            last_update_msg_seq |-> last_update_msg_seq]
           /\ batch_rx' = p.received
           /\ batch_set' = p.sets
           /\ batch_acks' = p.acks
           /\ batch_log' = p.logs
    /\ UNCHANGED <<codec_vars, target, client, call, net_sent, caller_vars>>

Next == Inject \/ ServeForever

Spec == Init /\ [][Next]_vars

(* --------------------------- server: claims --------------------------- *)

\* The server decodes the datagram: _parse_request_data returns.
Decoded(dg) == _parse_request_data(dg.data, driver).exc = "none"

\* A decoded, dimensionally valid datagram that carries a Frame
IsUpdate(dg) ==
    Decoded(dg) /\ ~IsNone(_parse_request_data(dg.data, driver).matrix)

Payload(dg) == _parse_request_data(dg.data, driver).matrix[1]

\* The acknowledgment ack answers dg: sent to dg's source, with dg's sequence number
Answers(ack, dg) ==
    ack.addr = dg.addr /\ SubSeq(ack.data, 1, 4) = SubSeq(dg.data, 1, 4)

FreshestWins ==
    LET updates == SelectSeq(batch_rx, IsUpdate)
    IN  /\ Len(batch_set) <= 1
        /\ updates # <<>> => batch_set = <<Payload(updates[Len(updates)])>>
        /\ \A i \in 1..Len(updates) :
              \E j \in 1..Len(batch_acks) : Answers(batch_acks[j], updates[i])

\* C1 (as claimed): in every batch driver.set is called at most once; if the
\* batch holds a decoded, dimensionally valid Frame-carrying datagram, it is
\* called exactly once, with the payload of the last one, and every
\* Frame-carrying datagram of the batch is acknowledged.
C1_FreshestWins == FreshestWins

AckedOnce ==
    LET valid == SelectSeq(batch_rx, Decoded)
    IN  /\ Len(batch_acks) = Len(valid)
        /\ \A i \in 1..Len(valid) : Answers(batch_acks[i], valid[i])

\* C2 (as claimed): the acknowledgments of a batch are, one for one and in
\* receipt order, those of the datagrams of the batch that the server decoded,
\* each sent to its datagram's source with its datagram's sequence number.
C2_AckedExactlyOnce == AckedOnce

\* C4 (as claimed): no exception leaves _process_requests, whatever the
\* datagrams hold.
C4_NeverCrashes == srv_exc = "none"

\* A request the protocol accepts: a query, or a well-formed update whose
\* declared dimensions are the driven display's
ValidRequest(dg) ==
    /\ ~Malformed(dg.data)
    /\ \/ Len(dg.data) = 4
       \/ /\ UnpackU32(SubSeq(dg.data, 5, 8)) = U32(driver.dim[1])
          /\ UnpackU32(SubSeq(dg.data, 9, 12)) = U32(driver.dim[2])

\* C5 (as claimed): a batch of valid datagrams and at least one malformed one
\* is processed as the batch of its valid datagrams alone would be: the same
\* acknowledgments, one per valid datagram, the same driver.set call and the
\* same display and tracking state afterwards.
C5_MalformedIsolation ==
    (/\ \E i \in 1..Len(batch_rx) : Malformed(batch_rx[i].data)
     /\ \A i \in 1..Len(batch_rx) :
           Malformed(batch_rx[i].data) \/ ValidRequest(batch_rx[i]))
    => LET valid == SelectSeq(batch_rx, ValidRequest)
           alone == _process_requests(valid, batch_pre.driver,
                                      batch_pre.last_update_client,
                                      batch_pre.last_update_msg_seq)
       IN  /\ srv_exc = "none"
           /\ Len(batch_acks) = Len(valid)
           /\ batch_acks = alone.acks
           /\ batch_set = alone.sets
           /\ driver = alone.driver
           /\ last_update_client = alone.last_update_client
           /\ last_update_msg_seq = alone.last_update_msg_seq

\* What holds of the batches the server survives: freshest-wins and one
\* acknowledgment per decoded datagram.
ServedBatchLemma == srv_exc = "none" => FreshestWins /\ AckedOnce

(* ---------------------- server: a burst of requests ------------------- *)

\* The number of datagrams hosts send to the server.
MaxSent == 12

\* The first MaxVaried datagrams are of any kind, the later ones are updates.
MaxVaried == 2

\* What the n-th datagram sent may be; its sequence number is n.
BurstDatagrams(n) ==
    { [data |-> Update(IF n % 2 = 0 THEN FrameA ELSE FrameB, U32(n)),
       addr |-> IF n % 3 = 0 THEN "a2" ELSE "a1"] }
    \cup (IF n > MaxVaried THEN {}
          ELSE { [data |-> Query(U32(n)), addr |-> "a2"],
                 [data |-> Garbage, addr |-> "a1"],
                 [data |-> ZeroArea(U32(n)), addr |-> "a2"] })

\* A host sends its next datagram while the server is busy or waiting.
Send ==
    /\ srv_exc = "none"
    /\ net_sent < MaxSent
    /\ \E dg \in BurstDatagrams(net_sent + 1) : srv_rx' = Append(srv_rx, dg)
    /\ net_sent' = net_sent + 1
    /\ UNCHANGED <<codec_vars, display_vars, caller_vars, srv_exc, last_update_client,
                   last_update_msg_seq, batch_vars>>

LiveNext == Send \/ ServeForever

\* What a turn of serve_forever does to the socket: it takes datagrams off it,
\* the first one at least, and no host's datagram is added in the same step.
Receives ==
    /\ srv_exc = "none"
    /\ srv_rx # <<>>
    /\ \E k \in 1..Len(srv_rx) : srv_rx' = SubSeq(srv_rx, k + 1, Len(srv_rx))
    /\ net_sent' = net_sent

\* The steps that change srv_rx as Receives says are the steps of ServeForever,
\* and ServeForever is enabled exactly when Receives is.
ReceivesIsServeForever ==
    [][(ServeForever => Receives) /\ (Receives => ServeForever)]_vars

ReceivesWhenServeForever ==
    (ENABLED <<ServeForever>>_vars) <=> (srv_exc = "none" /\ srv_rx # <<>>)

\* serve_forever is `while True`: whenever a datagram is pending, select
\* returns and _process_requests runs. ServeForever is enabled exactly when
\* Receives is, and the steps that change srv_rx as Receives says are its
\* steps, so the fairness of the loop is stated on Receives.
SpecLive == Init /\ [][LiveNext]_vars /\ WF_srv_rx(Receives)

\* The n-th datagram is a request the server decodes, pending on its socket
Pending(n) ==
    \E i \in 1..Len(srv_rx) :
        /\ SubSeq(srv_rx[i].data, 1, 4) = PackU32(U32(n))
        /\ Decoded(srv_rx[i])

\* The batch just processed acknowledged the n-th datagram
Acknowledged(n) ==
    \E j \in 1..Len(batch_acks) : SubSeq(batch_acks[j].data, 1, 4) = PackU32(U32(n))

\* C3: while the server loop runs (no exception has ended serve_forever),
\* every valid request pending on the server socket is eventually
\* acknowledged, also when more are pending than one cycle receives.
C3_EventuallyAcknowledged ==
    \A n \in 1..MaxSent : Pending(n) ~> (Acknowledged(n) \/ srv_exc # "none")

\* C3's case: a cycle received BatchCap datagrams, acknowledged them and left
\* a request pending for the next cycle
C3_Witness ==
    /\ srv_exc = "none"
    /\ Len(batch_rx) = BatchCap
    /\ Len(batch_acks) = BatchCap
    /\ \E n \in 1..MaxSent : Pending(n)

(* ------------------------- display: set and get ----------------------- *)

\* The most requests a UdpLedDisplay sends to a host that may answer.
MaxCalls == 3

\* The most requests a UdpLedDisplay sends to a host that is out of reach.
MaxOutageCalls == 12

\* The most datagrams pending on the client's socket between two calls.
MaxClientRx == 1

FrameTall == MatrixOf(Dim + 1, Dim, FHalf, FHalf)

FrameRagged == << <<(<<F0, F0, F0>>)>>, <<(<<F0, F0, F0>>), (<<F0, F0, F0>>)>> >>

\* The matrices a program hands to set
SetInputs == {FrameA, FrameB, FrameNaN, FrameWide, FrameTall, FrameRagged, <<>>}

\* Those it hands to the set of a UdpLedDisplay, which looks at the dimensions
\* of a matrix and at nothing else
RemoteInputs == {FrameA, FrameWide, FrameTall, FrameRagged, <<>>}

\* What may reach the client's socket while its next request is number seq:
\* acknowledgments of that request and of an old one, and arbitrary bytes
ClientDatagrams(seq) ==
    { Update(FrameA, seq), Query(seq), Update(FrameB, <<0, 0>>), Garbage,
      ZeroArea(seq) }

\* The datagrams that may reach the socket during a call that sends a request
Arrivals(seq) == {<<>>} \cup {<<d>> : d \in ClientDatagrams(seq)}

\* How many datagrams select may return before time_left runs out, in a call
\* that waits: a datagram pending when the request is sent is received.
InTime(rx, arrivals) == (IF rx = <<>> THEN 0 ELSE 1)..Len(rx \o arrivals)

\* The request of set(matrix) goes out
Sends(matrix) == ~IsNone(matrix) => _get_dim(matrix[1]) = [exc |-> "none", dim |-> client.dim]

\* create_display(target), or UdpLedDisplay(host, synchronous=...)
DisplayInit ==
    /\ CodecIdle
    /\ ServerInit
    /\ call = NoCall
    /\ target \in {"fake", "spi", "spi_no_gamma", "udp"}
    /\ IF target = "udp"
       THEN /\ driver = NoneVal
            /\ \E synchronous \in BOOLEAN : client = UdpNew(Dim, Dim, synchronous)
       ELSE /\ driver = create_display(target)
            /\ client = NoneVal

\* What a call did: [op, matrix, exc, ret, sent, xfers, timed_out], from the
\* record r a display operator returned
CallOf(op, matrix, r, sent, xfers, timed_out) ==
    [op |-> op, matrix |-> matrix, exc |-> r.exc, ret |-> r.ret, sent |-> sent,
     xfers |-> xfers, timed_out |-> timed_out]

\* set(matrix) passes `assert _get_dim(matrix) == self._dim` and assigns
\* _current_matrix
Stores(matrix) == _get_dim(matrix) = [exc |-> "none", dim |-> driver.dim]

\* display.set(matrix) on a FakeDisplay or a LocalLedDisplay; the program
\* keeps its reference to the frame object it passed
LocalSet ==
    /\ target # "udp"
    /\ \E matrix \in SetInputs :
          \E r \in {DriverSet(driver, matrix)} :
             /\ driver' = r.driver
             /\ call' = CallOf("set", matrix, [exc |-> r.exc, ret |-> NoneVal],
                               <<>>, r.xfers, FALSE)
             /\ held' = [val |-> matrix, obj |-> "frame",
                         cur |-> IF Stores(matrix) THEN KeptBySet("frame")
                                 ELSE held.cur]
    /\ UNCHANGED <<codec_vars, target, client, server_vars, batch_vars, net_sent, wait>>

\* display.get() on a FakeDisplay or a LocalLedDisplay
LocalGet ==
    /\ target # "udp"
    /\ call' = CallOf("get", NoneVal, [exc |-> "none", ret |-> DriverGet(driver)],
                      <<>>, 0, FALSE)
    /\ held' = [val |-> DriverGet(driver), obj |-> ReturnedByGet(held.cur),
                cur |-> held.cur]
    /\ UNCHANGED <<codec_vars, target, driver, client, server_vars, batch_vars, net_sent,
                   wait>>

\* What the program may turn the frame it holds into: it replaces the first
\* cell, or the first row
MutationsOf(val) ==
    IF val = <<>> THEN {}
    ELSE {[val EXCEPT ![1] = Repeat(<<F1, F1, F1>>, Len(val[1]))]}
         \cup (IF val[1] = <<>> THEN {}
               ELSE {[val EXCEPT ![1][1] = <<F1, F0, F1>>]})

\* The program changes, in place, the frame object it holds: the one it passed
\* to set, or the one get returned. An object that is the driver's
\* _current_matrix changes there too.
Mutate ==
    /\ target # "udp"
    /\ call.op \in {"set", "get"}
    /\ \E val \in MutationsOf(held.val) \ {held.val} :
          /\ held' = [held EXCEPT !.val = val]
          /\ driver' = IF held.obj = held.cur
                       THEN [driver EXCEPT !.current_matrix = val]
                       ELSE driver
    /\ call' = [op |-> "mutate", after |-> call.op, ok |-> call.exc = "none"]
    /\ UNCHANGED <<codec_vars, target, client, server_vars, batch_vars, net_sent,
                   wait>>

\* display.set(matrix) on a UdpLedDisplay that sends at most max_calls requests,
\* while any of the datagram sequences of arriving may reach its socket
RemoteSetWhile(max_calls, arriving) ==
    /\ target = "udp"
    /\ client.msg_seq[2] < max_calls
    /\ \E matrix \in RemoteInputs :
          \E arrivals \in (IF Sends(Some(matrix)) THEN arriving ELSE {<<>>}) :
             \E in_time \in (IF client.synchronous THEN InTime(client.rx, arrivals)
                             ELSE {0}) :
                \E r \in {UdpSet(client, matrix, arrivals, in_time)} :
                   /\ client' = r.client
                   /\ call' = CallOf("set", matrix, r, r.sent, 0, r.timed_out)
    /\ UNCHANGED <<codec_vars, target, driver, server_vars, batch_vars, net_sent, caller_vars>>

\* display.get() on such a UdpLedDisplay
RemoteGetWhile(max_calls, arriving) ==
    /\ target = "udp"
    /\ client.msg_seq[2] < max_calls
    /\ \E arrivals \in arriving :
          \E in_time \in InTime(client.rx, arrivals) :
             \E r \in {UdpGet(client, arrivals, in_time)} :
                /\ client' = r.client
                /\ call' = CallOf("get", NoneVal, r, r.sent, 0, r.timed_out)
    /\ UNCHANGED <<codec_vars, target, driver, server_vars, batch_vars, net_sent, caller_vars>>

RemoteSet == RemoteSetWhile(MaxCalls, Arrivals(client.msg_seq))

RemoteGet == RemoteGetWhile(MaxCalls, Arrivals(client.msg_seq))

\* A datagram reaches the client's socket between two calls. What the last
\* call did is kept until then.
Deliver ==
    /\ target = "udp"
    /\ Len(client.rx) < MaxClientRx
    /\ \E d \in ClientDatagrams(client.msg_seq) :
          client' = [client EXCEPT !.rx = Append(client.rx, d)]
    /\ call' = NoCall
    /\ UNCHANGED <<codec_vars, target, driver, server_vars, batch_vars, net_sent, caller_vars>>

DisplayNext ==
    LocalSet \/ LocalGet \/ Mutate \/ RemoteSet \/ RemoteGet \/ Deliver

SpecDisplay == DisplayInit /\ [][DisplayNext]_vars

(* ----------------------- display: an outage --------------------------- *)

\* UdpLedDisplay(host, synchronous=...) for a host that is out of reach
OutageInit == DisplayInit /\ target = "udp"

\* set and get while no datagram reaches the client's socket
OutageSet == RemoteSetWhile(MaxOutageCalls, {<<>>})

OutageGet == RemoteGetWhile(MaxOutageCalls, {<<>>})

OutageNext == OutageSet \/ OutageGet

SpecOutage == OutageInit /\ [][OutageNext]_vars

(* --------------------------- display: claims -------------------------- *)

\* dim() of the display the program created
DisplayDim == IF target = "udp" THEN client.dim ELSE driver.dim

\* The matrix has (rows, cols) other than dim; a matrix that has no rows, or
\* rows of different lengths, has no (rows, cols) equal to dim
WrongDim(matrix) ==
    _get_dim(matrix).exc # "none" \/ _get_dim(matrix).dim # DisplayDim

\* C9: set(matrix) with a matrix whose (rows, cols) differ from dim() raises
\* (an AssertionError) on a FakeDisplay, a LocalLedDisplay and a UdpLedDisplay,
\* and the call leaves the display as it was: the stored frame and what was
\* written to the bus are unchanged, no transfer is made, no datagram is sent
\* and _msg_seq is not advanced.
C9_DimensionInvariant ==
    [][(call'.op = "set" /\ WrongDim(call'.matrix))
       => /\ call'.exc = "AssertionError"
          /\ driver' = driver
          /\ client' = client
          /\ call'.xfers = 0
          /\ call'.sent = <<>>]_vars

\* C9's case: a UdpLedDisplay that has sent a request rejects a frame with one
\* column too many
C9_Witness ==
    /\ target = "udp"
    /\ call.op = "set"
    /\ call.matrix = FrameWide
    /\ call.exc = "AssertionError"
    /\ client.msg_seq = <<0, 1>>

\* The failure threshold of the client's circuit breaker
FailureThreshold == 10

\* C10 (as claimed): a set call whose request times out raises TooManyFailures
\* once the client's timed-out requests exceed the failure threshold, and
\* returns normally, with nothing raised, while they do not.
C10_CircuitBreaker ==
    (call.op = "set" /\ call.timed_out)
    => IF client.num_total_timeouts > FailureThreshold
       THEN call.exc = "TooManyFailures"
       ELSE call.exc = "none"

(* ----------------------- display: the stored frame -------------------- *)

\* Some channel of the matrix is not a number of [0, 1]
OutOfRange(matrix) ==
    \E i \in 1..Len(Channels(matrix)) : ~InUnitRange(Channels(matrix)[i])

\* C17 (as claimed): on a FakeDisplay and a LocalLedDisplay get() returns the
\* all-off frame after construction; a set that succeeds makes the frame it was
\* passed the one get() returns, a set that fails leaves the one of the last
\* successful set; get() returns that frame and changes nothing.
C17_GetReturnsLastSet ==
    /\ target # "udp" => DriverGet(driver) = all_off_matrix(driver.dim)
    /\ [][/\ (call'.op = "set" /\ target # "udp")
             => DriverGet(driver') = IF call'.exc = "none" THEN call'.matrix
                                     ELSE DriverGet(driver)
          /\ (call'.op = "get" /\ target # "udp")
             => call'.ret = DriverGet(driver) /\ driver' = driver]_vars

\* C18 (as claimed): when the program changes in place the frame that get()
\* returned, the driver's stored frame, which a later get() returns and the
\* server echoes in its acknowledgments, stays as it was.
C18_GetReturnsCopy ==
    [][(call'.op = "mutate" /\ call'.after = "get")
       => DriverGet(driver') = DriverGet(driver)]_vars

\* C19: when the program changes in place the frame object it passed to set,
\* the driver's stored frame, the result of get(), stays as it was.
C19_SetKeepsCopy ==
    [][(call'.op = "mutate" /\ call'.after = "set")
       => DriverGet(driver') = DriverGet(driver)]_vars

\* C19's case: a LocalLedDisplay stored the frame of a successful set, the
\* program then changed its own frame object, and the two now differ
C19_Witness ==
    /\ target = "spi"
    /\ call.op = "mutate"
    /\ call.after = "set"
    /\ call.ok
    /\ DriverGet(driver) = FrameA
    /\ held.val # FrameA

\* C20 (as claimed): LocalLedDisplay.set with a frame of the display's
\* dimensions that holds a channel outside [0, 1] raises, makes no transfer,
\* leaves what was written to the bus and leaves the stored frame, the result of
\* get(), the one of the previous successful set.
C20_ValidationNotPartial ==
    [][(/\ call'.op = "set"
        /\ target \in {"spi", "spi_no_gamma"}
        /\ ~WrongDim(call'.matrix)
        /\ OutOfRange(call'.matrix))
       => /\ call'.exc # "none"
          /\ call'.xfers = 0
          /\ driver'.spi = driver.spi
          /\ DriverGet(driver') = DriverGet(driver)]_vars

\* C29 (as claimed): _spi_xfer_profiler is never left started by a set, so
\* start() is never called while a measurement is open; a set with a frame of
\* the display's dimensions and channels in [0, 1] succeeds and writes the
\* frame to the bus, also after a set that failed.
C29_FailedSetDoesNotWedge ==
    [][/\ target \in {"spi", "spi_no_gamma"} => ~driver'.t0
       /\ (/\ call'.op = "set"
           /\ target \in {"spi", "spi_no_gamma"}
           /\ ~WrongDim(call'.matrix)
           /\ ~OutOfRange(call'.matrix))
          => /\ call'.exc = "none"
             /\ call'.xfers = 1
             /\ DriverGet(driver') = call'.matrix
             /\ driver'.spi = _flatten(IF driver.gamma_correct
                                       THEN _gamma_corrected(call'.matrix)
                                       ELSE call'.matrix).bytes]_vars

(* ------------------ client: the wait for an acknowledgment ------------ *)

\* self._timeout, in ticks of the clock time.time() reads
TimeoutTicks == 2

\* The most calls a program makes on the UdpLedDisplay.
MaxWaitCalls == 2

\* time_left that is never brought down by the time spent
TimeLeftNeverLess(timeout, elapsed) == timeout

\* time_left = self._timeout - (time.time() - start_t)
TimeLeft(timeout, elapsed) == timeout - elapsed

\* 3.4028235677973366e+38, a double that rounds past the largest binary32
FHuge == <<127, 127, 255, 255, 268435457>>

FrameHuge == MatrixOf(Dim, Dim, FHuge, F0)

\* The matrices the program hands to set
WaitInputs == {FrameA, FrameWide, FrameHuge}

\* _msg_seq of the client when the program starts to be watched: 0 as
\* constructed, or what it is after 2^16 - 1 and after 2^32 - 1 requests
SeqStarts == {<<0, 0>>, <<0, 65535>>, <<65535, 65535>>}

\* What may reach the client's socket while it waits for seq: replies to seq
\* with a frame of its dimensions, of other dimensions and of no area, a reply
\* to request 0, arbitrary bytes
WaitDatagrams(seq) ==
    { Update(FrameA, seq), Update(FrameWide, seq), ZeroArea(seq),
      Update(FrameB, <<0, 0>>), Garbage }

WaitInit ==
    /\ CodecIdle
    /\ ServerInit
    /\ call = NoCall
    /\ target = "udp"
    /\ driver = NoneVal
    /\ \E synchronous \in BOOLEAN : \E start \in SeqStarts :
          client = [UdpNew(Dim, Dim, synchronous) EXCEPT !.msg_seq = start]

\* set(matrix) or get() up to the wait loop: the assert, the sequence number,
\* the datagram; a call that does not wait returns in this step. _request_impl
\* with no datagram in time is a TimeoutError exactly when it enters the loop.
WaitRequest ==
    /\ target = "udp"
    /\ wait.pc = "idle"
    /\ wait.calls < MaxWaitCalls
    /\ \E op \in {"set", "get"} :
          \E matrix \in (IF op = "set" THEN WaitInputs ELSE {NoneVal}) :
             \E r \in {IF op = "get" /\ client.get_t0 THEN UdpGet(client, <<>>, 0)
                        ELSE IF op = "get"
                        THEN _request_impl(client, NoneVal, TRUE, <<>>, 0)
                        ELSE _request_impl(client, Some(matrix), client.synchronous,
                                           <<>>, 0)} :
                /\ client' = r.client
                /\ call' = CallOf(op, matrix,
                                  [exc |-> IF r.exc = "TimeoutError" THEN "pending"
                                           ELSE r.exc,
                                   ret |-> NoneVal], r.sent, 0, FALSE)
                /\ wait' = IF r.exc = "TimeoutError"
                           THEN [pc |-> "select", op |-> op,
                                 calls |-> wait.calls + 1,
                                 tx_msg_seq |-> client.msg_seq, got |-> NoneVal,
                                 elapsed |-> 0, time_left |-> TimeoutTicks,
                                 deadline |-> TimeoutTicks]
                           ELSE [wait EXCEPT !.op = op, !.calls = wait.calls + 1,
                                             !.got = NoneVal]
    /\ UNCHANGED <<codec_vars, target, driver, server_vars, batch_vars, net_sent,
                   held>>

\* The call leaves the wait loop: `return rx_matrix`, an exception of
\* _unpack_udp that is no RuntimeError, or TimeoutError, which _request catches
\* and counts. An exception leaves the profiler of get() started.
Leaves(exc, ret, timed_out, rest) ==
    /\ client' = [client EXCEPT
                     !.rx = rest,
                     !.num_total_timeouts = IF timed_out THEN @ + 1 ELSE @,
                     !.get_t0 = (wait.op = "get" /\ exc # "none")]
    /\ call' = [call EXCEPT !.exc = exc,
                            !.ret = IF wait.op = "get" THEN ret ELSE NoneVal,
                            !.timed_out = timed_out]
    /\ wait' = [wait EXCEPT !.pc = "idle", !.elapsed = 0, !.time_left = 0,
                            !.deadline = 0]

\* The bottom of the loop: time_left is computed, and the loop goes round
\* again while time_left >= 0
GoesRound(rest) ==
    \E time_left \in {TimeLeft(TimeoutTicks, wait.elapsed)} :
       IF time_left < 0 THEN Leaves("none", NoneVal, TRUE, rest)
       ELSE /\ client' = [client EXCEPT !.rx = rest]
            /\ call' = call
            /\ wait' = [wait EXCEPT !.pc = "select", !.time_left = time_left,
                                    !.deadline = wait.elapsed + time_left]

\* select returns: with the socket when a datagram is pending, and recvfrom
\* takes it; without it once time_left has gone by.
WaitSelect ==
    /\ target = "udp"
    /\ wait.pc = "select"
    /\ client.rx # <<>> \/ wait.elapsed >= wait.deadline
    /\ IF client.rx # <<>>
       THEN /\ client' = [client EXCEPT !.rx = Tail(client.rx)]
            /\ call' = call
            /\ wait' = [wait EXCEPT !.pc = "decode", !.got = Some(Head(client.rx))]
       ELSE GoesRound(client.rx)
    /\ UNCHANGED <<codec_vars, target, driver, server_vars, batch_vars, net_sent,
                   held>>

\* The try block on the datagram received: the call returns its matrix when it
\* decodes to the sequence number sent, passes over it when it does not or
\* when _unpack_udp raises RuntimeError, and raises what else _unpack_udp raises.
WaitDecode ==
    /\ target = "udp"
    /\ wait.pc = "decode"
    /\ \E w \in {WaitLoop(wait.got, wait.tx_msg_seq)} :
          IF w.exc # "TimeoutError" THEN Leaves(w.exc, w.ret, FALSE, client.rx)
          ELSE GoesRound(client.rx)
    /\ UNCHANGED <<codec_vars, target, driver, server_vars, batch_vars, net_sent,
                   held>>

\* What WaitDecode does to wait: the call leaves the loop or goes round again.
Decides ==
    /\ wait.pc = "decode"
    /\ \E pc \in {"idle", "select"} : \E time_left \in 0..TimeoutTicks :
          wait' = [wait EXCEPT !.pc = pc,
                               !.elapsed = IF pc = "idle" THEN 0 ELSE @,
                               !.time_left = IF pc = "idle" THEN 0 ELSE time_left,
                               !.deadline = IF pc = "idle" THEN 0
                                            ELSE wait.elapsed + time_left]

\* The steps that change wait as Decides says are the steps of WaitDecode.
DecidesIsWaitDecode ==
    [][(WaitDecode => Decides) /\ (Decides => WaitDecode)]_vars

\* WaitDecode is enabled exactly in the states where Decides is.
DecidesWhenWaitDecode == (ENABLED <<WaitDecode>>_vars) <=> (wait.pc = "decode")

\* The clock time.time() reads advances while the call is in its wait loop;
\* past the timeout how far it went makes no difference.
Tick ==
    /\ wait.pc # "idle"
    /\ wait.elapsed <= TimeoutTicks
    /\ wait' = [wait EXCEPT !.elapsed = wait.elapsed + 1]
    /\ UNCHANGED <<codec_vars, display_vars, server_vars, batch_vars, net_sent,
                   held>>

\* A datagram reaches the client's socket during a wait, before select
\* returns; what the call does not receive stays pending for the next one.
Arrive ==
    /\ target = "udp"
    /\ Len(client.rx) < MaxClientRx
    /\ wait.pc = "select"
    /\ \E d \in WaitDatagrams(wait.tx_msg_seq) :
          client' = [client EXCEPT !.rx = Append(client.rx, d)]
    /\ UNCHANGED <<codec_vars, target, driver, call, server_vars, batch_vars,
                   net_sent, caller_vars>>

WaitNext == WaitRequest \/ WaitSelect \/ WaitDecode \/ Tick \/ Arrive

\* The clock advances and the thread that waits runs: select returns when it
\* can, and the datagram received is decoded. WaitDecode is enabled exactly
\* when wait.pc = "decode", as Decides is, and the steps that change wait as
\* Decides says are its steps, so its fairness is stated on Decides.
SpecWait ==
    /\ WaitInit /\ [][WaitNext]_vars
    /\ WF_vars(Tick) /\ WF_vars(WaitSelect) /\ WF_wait(Decides)

(* ------------------------- client: claims ----------------------------- *)

\* The call that last waited has completed
Returned == wait.pc = "idle" /\ call.op \in {"set", "get"}

\* The last datagram the call received decodes to the sequence number of its
\* request
AckReceived ==
    /\ ~IsNone(wait.got)
    /\ _unpack_udp(wait.got[1]).exc = "none"
    /\ _unpack_udp(wait.got[1]).msg_seq = wait.tx_msg_seq

\* C11 (as claimed): UdpLedDisplay.set returns normally only after a reply
\* that carries the sequence number of its request was received; otherwise it
\* raises.
C11_SetSynchronous ==
    (Returned /\ call.op = "set" /\ call.exc = "none") => AckReceived

\* This step is the try block on the datagram the call received
Recv == wait.pc = "decode" /\ wait'.pc # "decode"

\* C12 (as claimed): a datagram received during the wait for s ends the wait
\* as a success when it is well-formed and its sequence number is s; any
\* other datagram is consumed and ignored: the wait goes on, or ends as a
\* timeout when the budget is spent.
C12_AckMatching ==
    [][Recv =>
        LET d == wait.got[1]
        IN  IF ~Malformed(d) /\ UnpackU32(SubSeq(d, 1, 4)) = wait.tx_msg_seq
            THEN wait'.pc = "idle" /\ call'.exc = "none" /\ ~call'.timed_out
            ELSE \/ wait'.pc = "select" /\ call' = call
                 \/ /\ wait'.pc = "idle" /\ call'.exc = "none" /\ call'.timed_out
                    /\ wait.elapsed > TimeoutTicks]_vars

\* C13: a call that waits for its acknowledgment returns or raises, also when
\* no datagram arrives and when datagrams that do not acknowledge it keep
\* arriving.
C13_NeverHangs == (wait.pc # "idle") ~> (wait.pc = "idle")

\* C13's case: a call gave up after it had received a datagram that did not
\* acknowledge it
C13_Witness ==
    /\ Returned
    /\ call.timed_out
    /\ ~IsNone(wait.got)
    /\ ~AckReceived

\* C14 (as claimed): the client's failure counter is zero right after a request
\* that was acknowledged.
C14_CounterReset ==
    (Returned /\ call.exc = "none" /\ AckReceived) => client.num_total_timeouts = 0

\* C15 (as claimed): get() sends the 4-byte query; the frame it returns has the
\* client's dimensions, and a matching reply with other dimensions raises
\* RemoteDimensionMismatch.
C15_GetChecksDimensions ==
    (Returned /\ call.op = "get" /\ call.sent # <<>>)
    => /\ call.sent = <<PackU32(wait.tx_msg_seq)>>
       /\ (call.exc = "none" /\ ~IsNone(call.ret))
          => _get_dim(call.ret[1]) = [exc |-> "none", dim |-> client.dim]
       /\ (/\ AckReceived
           /\ ~IsNone(_unpack_udp(wait.got[1]).matrix)
           /\ _get_dim(_unpack_udp(wait.got[1]).matrix[1]).dim # client.dim)
          => call.exc = "RemoteDimensionMismatch"

\* u + 1 modulo 2^32, on the halves of u
Succ32(u) ==
    IF u[2] < 65535 THEN <<u[1], u[2] + 1>>
    ELSE IF u[1] < 65535 THEN <<u[1] + 1, 0>>
    ELSE <<0, 0>>

\* This step is a call that takes a sequence number: a get(), or a set of a
\* matrix of the client's dimensions
Requests ==
    /\ wait'.calls = wait.calls + 1
    /\ call'.op = "get" => ~client.get_t0
    /\ call'.op = "set" => ~WrongDim(call'.matrix)

\* C16: _msg_seq stays a u32; it changes only when a request takes it, every
\* request (set or get, waiting or not, whatever becomes of it) takes it and
\* leaves it one higher modulo 2^32, 0 after 2^32 - 1; the datagram of the
\* request carries the number taken, 0 for a client as constructed.
C16_SequenceNumbers ==
    [][/\ client'.msg_seq \in (0..65535) \X (0..65535)
       /\ client'.msg_seq # client.msg_seq => Requests
       /\ Requests =>
             /\ client'.msg_seq = Succ32(client.msg_seq)
             /\ call'.sent # <<>> =>
                   /\ IsBigEndian(SubSeq(call'.sent[1], 1, 4), client.msg_seq)
                   /\ client = UdpNew(Dim, Dim, client.synchronous)
                      => SubSeq(call'.sent[1], 1, 4) = <<0, 0, 0, 0>>]_vars

\* C16's case: the request that carried 2^32 - 1 left _msg_seq at 0
C16_Witness ==
    /\ call.op \in {"set", "get"}
    /\ call.sent # <<>>
    /\ SubSeq(call.sent[1], 1, 4) = <<255, 255, 255, 255>>
    /\ client.msg_seq = <<0, 0>>

(* -------------------- displays of any dimensions ---------------------- *)

\* The most rows and the most columns of a display the program constructs.
MaxDriverDim == 3

FQuarter == <<62, 128, 0, 0, 0>>

FThreeQuarters == <<63, 64, 0, 0, 0>>

Palette == <<F0, FQuarter, FHalf, FThreeQuarters, F1, FTenth>>

\* rows x cols, no two cells alike: the cell of row i and column j holds the
\* palette's values number i, number j and number i + j + shift (modulo 6)
Ramp(rows, cols, shift) ==
    [i \in 1..rows |->
        [j \in 1..cols |->
            <<Palette[i], Palette[j], Palette[((i + j + shift) % 6) + 1]>>]]

\* The matrices the program hands to the set of a rows x cols display
SizedInputs(rows, cols) ==
    { Ramp(rows, cols, 0), Ramp(rows, cols, 1), MatrixOf(rows, cols, F1, F1),
      MatrixOf(rows, cols, FOneAndHalf, F0), MatrixOf(rows + 1, cols, FHalf, FHalf) }

\* The most requests a UdpLedDisplay of such dimensions sends.
MaxSizedCalls == 2

\* The program constructs a display of num_rows x num_cols: a FakeDisplay, a
\* LocalLedDisplay or a UdpLedDisplay. An exception of __init__ leaves it with
\* no display.
SizedInit ==
    /\ CodecIdle
    /\ ServerInit
    /\ target \in {"fake", "spi", "spi_no_gamma", "udp"}
    /\ \E num_rows \in 1..MaxDriverDim : \E num_cols \in 1..MaxDriverDim :
          IF target = "udp"
          THEN /\ driver = NoneVal
               /\ \E synchronous \in BOOLEAN :
                     client = UdpNew(num_rows, num_cols, synchronous)
               /\ call = CallOf("new", NoneVal, [exc |-> "none", ret |-> NoneVal],
                                <<>>, 0, FALSE)
          ELSE /\ client = NoneVal
               /\ \E r \in {Construct(target, num_rows, num_cols)} :
                     /\ driver = r.driver
                     /\ call = CallOf("new", NoneVal,
                                      [exc |-> r.exc, ret |-> NoneVal],
                                      <<>>, r.xfers, FALSE)

\* __init__ of the FakeDisplay or LocalLedDisplay returned: the program has it
Constructed == target # "udp" /\ ~IsNone(DriverGet(driver))

\* display.set(matrix) on the UdpLedDisplay constructed, while no datagram
\* reaches its socket
SizedRemoteSet ==
    /\ target = "udp"
    /\ client.msg_seq[2] < MaxSizedCalls
    /\ \E matrix \in SizedInputs(client.dim[1], client.dim[2]) :
          \E r \in {UdpSet(client, matrix, <<>>, 0)} :
             /\ client' = r.client
             /\ call' = CallOf("set", matrix, r, r.sent, 0, r.timed_out)
    /\ UNCHANGED <<codec_vars, target, driver, server_vars, batch_vars, net_sent,
                   caller_vars>>

\* display.set(matrix) on the display constructed
SizedSet ==
    /\ Constructed
    /\ \E matrix \in SizedInputs(driver.dim[1], driver.dim[2]) :
          \E r \in {DriverSet(driver, matrix)} :
             /\ driver' = r.driver
             /\ call' = CallOf("set", matrix, [exc |-> r.exc, ret |-> NoneVal],
                               <<>>, r.xfers, FALSE)
             /\ held' = [val |-> matrix, obj |-> "frame",
                         cur |-> IF Stores(matrix) THEN KeptBySet("frame")
                                 ELSE held.cur]
    /\ UNCHANGED <<codec_vars, target, client, server_vars, batch_vars, net_sent, wait>>

\* display.get() on the display constructed
SizedGet == Constructed /\ LocalGet

SizedNext == SizedSet \/ SizedGet \/ SizedRemoteSet

SpecSized == SizedInit /\ [][SizedNext]_vars

(* ----------------- displays of any dimensions: claims ----------------- *)

\* The last call was a set that wrote its frame to the bus
Wrote ==
    /\ target \in {"spi", "spi_no_gamma"}
    /\ call.op = "set"
    /\ call.exc = "none"

\* The channel the driver quantizes for the channel v of a frame: v ** 2.3
\* with gamma correction, v without
AfterGamma(v) == IF driver.gamma_correct THEN Pow23(v) ELSE v

\* The channel k of the cell that is number p (from 0) of the row emitted as
\* number e (from 0), after the gamma step: the rows are emitted last logical
\* row first, the 2nd, 4th, ... emitted rows last column first
Emitted(e, p, k) ==
    LET rows == driver.dim[1]
        cols == driver.dim[2]
    IN  AfterGamma(call.matrix[rows - e][IF e % 2 = 1 THEN cols - p ELSE p + 1][k])

\* The byte written for that channel
ByteAt(e, p, k) == driver.spi[3 * (e * driver.dim[2] + p) + k]

\* C22: the bytes written to the bus for a rows x cols frame are 3 * rows * cols
\* bytes, one cell after the other with its R, G, B in that order, the logical
\* rows last row first, every other emitted row (the 2nd, 4th, ...) last
\* column first; so every logical cell is written once.
C22_Snaking ==
    Wrote
    => /\ Len(driver.spi) = 3 * driver.dim[1] * driver.dim[2]
       /\ \A e \in 0..(driver.dim[1] - 1) : \A p \in 0..(driver.dim[2] - 1) :
             \A k \in 1..3 : ByteAt(e, p, k) = Quantize(Emitted(e, p, k))

\* C22's case: a 3 x 3 frame of nine different cells written with no gamma
\* correction: first the cell of row 3, column 1, and as the 4th the cell of
\* row 2, column 3
C22_Witness ==
    /\ Wrote
    /\ target = "spi_no_gamma"
    /\ call.matrix = Ramp(3, 3, 0)
    /\ SubSeq(driver.spi, 1, 3) = <<128, 0, 255>>
    /\ SubSeq(driver.spi, 10, 12) = <<64, 128, 25>>

\* b / 256 as a float, for b in 0..256
Over256(b) ==
    IF b = 0 THEN F0
    ELSE LET p == CHOOSE q \in 0..8 : 2 ^ q <= b /\ b < 2 ^ (q + 1)
             bits == (119 + p) * 8388608 + (b - 2 ^ p) * 2 ^ (23 - p)
         IN  <<bits \div 16777216, (bits \div 65536) % 256,
               (bits \div 256) % 256, bits % 256, 0>>

\* b = min(floor(c * 256), 255)
IsQuantized(b, c) ==
    /\ b \in 0..255
    /\ ~FLt(c, Over256(b))
    /\ b < 255 => FLt(c, Over256(b + 1))

\* C23: every byte written to the bus is min(floor(c * 256), 255) for its
\* channel c after the gamma step (v ** 2.3 with gamma correction, v without);
\* it is in 0..255, a greater channel never gives a smaller byte, 0.0 gives 0,
\* 1.0 gives 255, and 0.5 with gamma correction gives 51.
C23_Quantization ==
    Wrote
    => LET at == (0..(driver.dim[1] - 1)) \X (0..(driver.dim[2] - 1)) \X (1..3)
           c(x) == Emitted(x[1], x[2], x[3])
           v(x) == call.matrix[driver.dim[1] - x[1]]
                              [IF x[1] % 2 = 1 THEN driver.dim[2] - x[2]
                               ELSE x[2] + 1][x[3]]
           b(x) == ByteAt(x[1], x[2], x[3])
       IN  /\ \A x \in at :
                 /\ IsQuantized(b(x), c(x))
                 /\ c(x) = F0 => b(x) = 0
                 /\ c(x) = F1 => b(x) = 255
                 /\ (driver.gamma_correct /\ v(x) = FHalf) => b(x) = 51
           /\ \A x \in at : \A y \in at : FLt(c(x), c(y)) => b(x) <= b(y)

\* C23's case: a 1 x 1 display with gamma correction wrote (0.0, 0.0, 0.5) as
\* the bytes 0, 0, 51
C23_Witness ==
    /\ Wrote
    /\ target = "spi"
    /\ call.matrix = Ramp(1, 1, 0)
    /\ driver.spi = <<0, 0, 51>>

\* C21 (as claimed): on a FakeDisplay, a LocalLedDisplay and a UdpLedDisplay,
\* set with a frame of the display's dimensions that holds a channel outside
\* [0, 1] raises; the frame does not become the stored frame, and no datagram
\* that encodes it is sent.
C21_ChannelRangeAtBoundary ==
    [][(/\ call'.op = "set"
        /\ ~WrongDim(call'.matrix)
        /\ OutOfRange(call'.matrix))
       => /\ call'.exc # "none"
          /\ target # "udp" => DriverGet(driver') = DriverGet(driver)
          /\ call'.sent = <<>>]_vars

\* C28 (as claimed): constructing a FakeDisplay or a LocalLedDisplay of
\* num_rows x num_cols succeeds for all num_rows >= 1 and num_cols >= 1; the
\* frame get() returns has dim() = (num_rows, num_cols) rows and columns in
\* every state, and is the all-off frame of that shape after construction.
C28_ConstructionAndDimensions ==
    target # "udp"
    => /\ call.op = "new" =>
             /\ call.exc = "none"
             /\ DriverGet(driver) = MatrixOf(driver.dim[1], driver.dim[2], F0, F0)
       /\ _get_dim(DriverGet(driver)) = [exc |-> "none", dim |-> driver.dim]

(* ------------------ server: batches of valid requests ----------------- *)

\* The most datagrams pending on the server socket.
MaxOrderQueue == 3

\* What two hosts send: a query, updates of two frames whose numbers repeat
\* and go back as the addresses alternate, and arbitrary bytes
OrderDatagrams ==
    { [data |-> Query(<<0, 0>>), addr |-> "a2"],
      [data |-> Update(FrameA, <<0, 5>>), addr |-> "a2"],
      [data |-> Update(FrameB, <<0, 1>>), addr |-> "a1"],
      [data |-> Garbage, addr |-> "a1"] }

\* The server starts on a FakeDisplay
OrderInit ==
    /\ CodecIdle
    /\ target = "fake"
    /\ driver = create_display(target)
    /\ client = NoneVal
    /\ call = NoCall
    /\ ServerInit

\* A host sends one of these datagrams to the server's port. What the last
\* batch did is kept until then.
OrderInject ==
    /\ srv_exc = "none"
    /\ Len(srv_rx) < MaxOrderQueue
    /\ \E dg \in OrderDatagrams : srv_rx' = Append(srv_rx, dg)
    /\ batch_pre' = NoBatch
    /\ batch_rx' = <<>>
    /\ batch_set' = <<>>
    /\ batch_acks' = <<>>
    /\ batch_log' = <<>>
    /\ UNCHANGED <<codec_vars, display_vars, caller_vars, srv_exc, last_update_client,
                   last_update_msg_seq, net_sent>>

OrderNext == OrderInject \/ ServeForever

SpecOrder == OrderInit /\ [][OrderNext]_vars

(* ---------------------- server: claims on a batch --------------------- *)

\* The datagrams of the batch that the server decoded, in receipt order
ValidOfBatch == SelectSeq(batch_rx, Decoded)

\* The sequence number a datagram carries
SeqOf(dg) == UnpackU32(SubSeq(dg.data, 1, 4))

\* The datagram as another host would have sent it as its first: from the
\* address a1, with the sequence number 0
Anonymous(dg) ==
    IF Len(dg.data) < 4 THEN [dg EXCEPT !.addr = "a1"]
    ELSE [data |-> <<0, 0, 0, 0>> \o SubSeq(dg.data, 5, Len(dg.data)),
          addr |-> "a1"]

\* What an acknowledgment carries after its sequence number
FrameBytes(ack) == SubSeq(ack.data, 5, Len(ack.data))

\* C24: what the server does with a batch does not depend on the sequence
\* numbers and source addresses of its datagrams, nor on what the server
\* tracks: with every datagram renumbered 0 and sent from one address, and no
\* client tracked, it calls driver.set with the same frame, ends the same way
\* and sends as many acknowledgments with the same frames; each acknowledgment
\* goes to the source of its datagram with that datagram's number.
C24_SequenceObservabilityOnly ==
    batch_rx # <<>>
    => LET other == _process_requests(
                        [i \in 1..Len(batch_rx) |-> Anonymous(batch_rx[i])],
                        batch_pre.driver, "None", NoneVal)
       IN  /\ srv_exc = other.exc
           /\ batch_set = other.sets
           /\ driver = other.driver
           /\ Len(batch_acks) = Len(other.acks)
           /\ \A k \in 1..Len(batch_acks) :
                 /\ FrameBytes(batch_acks[k]) = FrameBytes(other.acks[k])
                 /\ Answers(batch_acks[k], ValidOfBatch[k])

\* C24's case: the last datagram of the batch repeated the sequence number of
\* the one before it, from the same address, and was logged, applied and
\* acknowledged
C24_Witness ==
    /\ Len(batch_rx) >= 2
    /\ batch_rx[Len(batch_rx)] = batch_rx[Len(batch_rx) - 1]
    /\ \E i \in 1..Len(batch_log) :
          batch_log[i] = [event |-> "repeated message", at |-> Len(batch_rx)]
    /\ batch_set = <<FrameA>>
    /\ Len(batch_acks) = Len(batch_rx)

\* driver.set raised while the batch applied its winning update
ApplyFailed ==
    batch_set # <<>> /\ DriverSet(batch_pre.driver, batch_set[1]).exc # "none"

\* C26 (as claimed): when driver.set fails on the winning update of a batch,
\* the server goes on (no exception leaves _process_requests) and every
\* datagram of the batch that was decoded is answered, in receipt order.
C26_DriverFailureDuringApply == ApplyFailed => (srv_exc = "none" /\ AckedOnce)

\* The place in ValidOfBatch of the winning update: the last datagram that
\* carries a Frame, 0 when there is none
Winner ==
    LET ups == {k \in 1..Len(ValidOfBatch) : IsUpdate(ValidOfBatch[k])}
    IN  IF ups = {} THEN 0 ELSE CHOOSE k \in ups : \A j \in ups : j <= k

\* C30: the acknowledgments of a batch are sent once the batch is drained (no
\* datagram is pending, or BatchCap were received), in receipt order, each to
\* its datagram's source with its datagram's number; those of the datagrams
\* received before the winning update carry the frame displayed before the
\* batch, that of the winning update and the later ones the winning frame.
C30_AckPayloadAndOrder ==
    /\ Len(batch_acks) <= Len(ValidOfBatch)
    /\ batch_acks # <<>> => (srv_rx = <<>> \/ Len(batch_rx) = BatchCap)
    /\ \A k \in 1..Len(batch_acks) :
          /\ Answers(batch_acks[k], ValidOfBatch[k])
          /\ batch_acks[k].data =
                _pack_udp(Some(IF Winner # 0 /\ k >= Winner
                               THEN Payload(ValidOfBatch[Winner])
                               ELSE DriverGet(batch_pre.driver)),
                          SeqOf(ValidOfBatch[k])).data

\* C30's case: a query, an update and a query in one batch; the first is
\* answered with the all-off frame, the update and the second query with the
\* frame of the update
C30_Witness ==
    /\ Len(batch_rx) = 3
    /\ batch_rx[1].data = Query(<<0, 0>>)
    /\ batch_rx[2].data = Update(FrameA, <<0, 5>>)
    /\ batch_rx[3].data = Query(<<0, 0>>)
    /\ batch_set = <<FrameA>>
    /\ batch_acks = << [data |-> Update(MatrixOf(Dim, Dim, F0, F0), <<0, 0>>),
                        addr |-> "a2"],
                       [data |-> Update(FrameA, <<0, 5>>), addr |-> "a2"],
                       [data |-> Update(FrameA, <<0, 0>>), addr |-> "a2"] >>

(* ------------------- server: the tracking of gaps --------------------- *)

\* The most datagrams pending on the socket of a server that starts.
MaxGapQueue == 3

\* What two hosts send to a server that starts: updates numbered 0, 1, 2 and
\* 2^32 - 1 and a query numbered 1 from a1, an update numbered 0 from a2
GapDatagrams ==
    { [data |-> Update(FrameA, <<0, 0>>), addr |-> "a1"],
      [data |-> Update(FrameB, <<0, 1>>), addr |-> "a1"],
      [data |-> Update(FrameA, <<0, 2>>), addr |-> "a1"],
      [data |-> Update(FrameB, <<65535, 65535>>), addr |-> "a1"],
      [data |-> Query(<<0, 1>>), addr |-> "a1"],
      [data |-> Update(FrameA, <<0, 0>>), addr |-> "a2"] }

\* The sequences of 1 to n datagrams
RECURSIVE Bursts(_)
Bursts(n) ==
    IF n = 0 THEN {<<>>}
    ELSE Bursts(n - 1)
         \cup {Append(b, dg) : b \in {c \in Bursts(n - 1) : Len(c) = n - 1},
                               dg \in GapDatagrams}

\* A server that has seen no datagram finds up to MaxGapQueue pending
GapInit ==
    /\ CodecIdle
    /\ target = "fake"
    /\ driver = create_display(target)
    /\ client = NoneVal
    /\ call = NoCall
    /\ last_update_client = "None"
    /\ last_update_msg_seq = NoneVal
    /\ srv_exc = "none"
    /\ batch_pre = NoBatch
    /\ batch_rx = <<>>
    /\ batch_set = <<>>
    /\ batch_acks = <<>>
    /\ batch_log = <<>>
    /\ net_sent = 0
    /\ held = NoHeld
    /\ wait = NoWait
    /\ srv_rx \in Bursts(MaxGapQueue) \ {<<>>}

GapNext == ServeForever

SpecGap == GapInit /\ [][GapNext]_vars

\* The datagram processed last before number i from the same source address,
\* 0 when number i is the first from its address
PreviousFrom(i) ==
    LET before == {j \in 1..(i - 1) :
                      ValidOfBatch[j].addr = ValidOfBatch[i].addr}
    IN  IF before = {} THEN 0 ELSE CHOOSE j \in before : \A h \in before : h <= j

\* The server logged the event for the datagram it processed as number i
Logged(event, i) ==
    \E k \in 1..Len(batch_log) : batch_log[k] = [event |-> event, at |-> i]

\* C25 (as claimed): the server logs "requests missing" for a datagram it
\* processes exactly when it processed a datagram from the same source address
\* before and the sequence number is not one more, modulo 2^32, than that of
\* the last such datagram; for the first datagram from an address it logs
\* "new update client" and no gap.
C25_GapDetectionPerAddress ==
    \A i \in 1..Len(ValidOfBatch) :
        LET j == PreviousFrom(i)
        IN  /\ Logged("requests missing", i)
                <=> (j # 0 /\ SeqOf(ValidOfBatch[i]) # Succ32(SeqOf(ValidOfBatch[j])))
            /\ j = 0 => Logged("new update client", i)

(* ------------------ client: a set that does not wait ------------------ *)

\* The most replies pending on the client's socket, and the most requests the
\* client sends.
MaxFlushRx == 11

MaxFlushCalls == 2

\* UdpLedDisplay(host), synchronous=False as by default
FlushInit ==
    /\ CodecIdle
    /\ ServerInit
    /\ call = NoCall
    /\ target = "udp"
    /\ driver = NoneVal
    /\ client = UdpNew(Dim, Dim, FALSE)

\* display.set(matrix); nothing reaches the socket during the call
FlushSet == RemoteSetWhile(MaxFlushCalls, {<<>>})

\* A reply reaches the client's socket between two calls; the replies are
\* numbered by their place in the queue
ReplyArrives ==
    /\ target = "udp"
    /\ Len(client.rx) < MaxFlushRx
    /\ client' = [client EXCEPT
                     !.rx = Append(client.rx, Query(U32(Len(client.rx) + 1)))]
    /\ call' = NoCall
    /\ UNCHANGED <<codec_vars, target, driver, server_vars, batch_vars, net_sent,
                   caller_vars>>

FlushNext == FlushSet \/ ReplyArrives

SpecFlush == FlushInit /\ [][FlushNext]_vars

\* C27: a set that does not wait for its acknowledgment returns with nothing
\* raised and no timeout once its datagram is sent; of the k replies pending
\* on its socket it has removed the first min(k, 10) and left the others.
C27_FlushBounded ==
    [][(call'.op = "set" /\ call'.sent # <<>> /\ ~client.synchronous)
       => LET k == Len(client.rx)
              n == IF k < 10 THEN k ELSE 10
          IN  /\ call'.exc = "none"
              /\ ~call'.timed_out
              /\ client'.num_total_timeouts = client.num_total_timeouts
              /\ client'.rx = SubSeq(client.rx, n + 1, k)]_vars

\* C27's case: a set found 11 replies pending, removed 10 and left the 11th
C27_Witness ==
    /\ target = "udp"
    /\ call.op = "set"
    /\ call.sent # <<>>
    /\ client.rx = <<Query(U32(11))>>

(* ------------------- server: the frame it displays -------------------- *)

\* The frame the display shows after a step is the payload of the last
\* Frame-carrying datagram of the batch the step processed, a datagram the
\* server decoded with the display's dimensions
ShowsWinner ==
    LET updates == SelectSeq(batch_rx', IsUpdate)
    IN  /\ updates # <<>>
        /\ DriverGet(driver') = Payload(updates[Len(updates)])

\* C31 (as claimed): the frame of the driven display always has the
\* dimensions dim() and all its channels in [0, 1]; a step of the server
\* changes it to nothing but the payload of a datagram it received and decoded,
\* of the display's dimensions, the last Frame-carrying one of its batch.
C31_DisplayIntegrity ==
    [][/\ ~WrongDim(DriverGet(driver'))
       /\ ~OutOfRange(DriverGet(driver'))
       /\ DriverGet(driver') # DriverGet(driver) => ShowsWinner]_vars

(* ---------------- server: frames of other dimensions ------------------ *)

\* The most datagrams pending on the server socket.
MaxRejectQueue == 3

\* What two hosts send: a query, an update of the display's dimensions, and
\* updates with a column and with a row too many
RejectDatagrams ==
    { [data |-> Query(<<0, 0>>), addr |-> "a2"],
      [data |-> Update(FrameA, <<0, 5>>), addr |-> "a2"],
      [data |-> Update(FrameWide, <<0, 3>>), addr |-> "a1"],
      [data |-> Update(FrameTall, <<0, 6>>), addr |-> "a2"] }

\* A host sends one of these datagrams to the server's port. What the last
\* batch did is kept until then.
RejectInject ==
    /\ srv_exc = "none"
    /\ Len(srv_rx) < MaxRejectQueue
    /\ \E dg \in RejectDatagrams : srv_rx' = Append(srv_rx, dg)
    /\ batch_pre' = NoBatch
    /\ batch_rx' = <<>>
    /\ batch_set' = <<>>
    /\ batch_acks' = <<>>
    /\ batch_log' = <<>>
    /\ UNCHANGED <<codec_vars, display_vars, caller_vars, srv_exc, last_update_client,
                   last_update_msg_seq, net_sent>>

RejectNext == RejectInject \/ ServeForever

SpecReject == OrderInit /\ [][RejectNext]_vars

\* A datagram that _unpack_udp decodes into a frame whose dimensions are not
\* the driven display's
ForeignFrame(dg) ==
    LET u == _unpack_udp(dg.data)
    IN  /\ u.exc = "none"
        /\ ~IsNone(u.matrix)
        /\ _get_dim(u.matrix[1]) # [exc |-> "none", dim |-> driver.dim]

NotForeign(dg) == ~ForeignFrame(dg)

\* C32: a batch that holds Frame-carrying datagrams of other dimensions than
\* the display's is processed as the batch without them would be: the same
\* driver.set call (an earlier valid update still wins), the same
\* acknowledgments, the same displayed frame and the same tracking state;
\* none of those datagrams is applied, none is acknowledged.
C32_WrongDimensionsDiscarded ==
    (\E i \in 1..Len(batch_rx) : ForeignFrame(batch_rx[i]))
    => LET alone == _process_requests(SelectSeq(batch_rx, NotForeign),
                                      batch_pre.driver,
                                      batch_pre.last_update_client,
                                      batch_pre.last_update_msg_seq)
       IN  /\ srv_exc = "none"
           /\ batch_set = alone.sets
           /\ batch_acks = alone.acks
           /\ driver = alone.driver
           /\ last_update_client = alone.last_update_client
           /\ last_update_msg_seq = alone.last_update_msg_seq
           /\ \A i \in 1..Len(batch_rx) :
                 ForeignFrame(batch_rx[i])
                 => /\ batch_set # <<_unpack_udp(batch_rx[i].data).matrix[1]>>
                    /\ DriverGet(driver) # _unpack_udp(batch_rx[i].data).matrix[1]
                    /\ \A j \in 1..Len(batch_acks) :
                          ~Answers(batch_acks[j], batch_rx[i])

\* C32's case: an update of the display's dimensions from a2, then one with
\* a column too many from a1, in one batch: the first is applied and
\* acknowledged, and a2 stays the client the server tracks
C32_Witness ==
    /\ Len(batch_rx) = 2
    /\ batch_rx[1].data = Update(FrameA, <<0, 5>>)
    /\ batch_rx[2].data = Update(FrameWide, <<0, 3>>)
    /\ batch_set = <<FrameA>>
    /\ batch_acks = << [data |-> Update(FrameA, <<0, 5>>), addr |-> "a2"] >>
    /\ DriverGet(driver) = FrameA
    /\ last_update_client = "a2"
    /\ last_update_msg_seq = <<0, 5>>

(* ------------------ server: what one cycle receives ------------------- *)

\* The number of datagrams hosts send to the server.
MaxDrainSent == 12

\* The first MaxDrainVaried datagrams are of any kind, the later are queries.
MaxDrainVaried == 1

\* What the n-th datagram sent may be; its sequence number is n.
DrainDatagrams(n) ==
    { [data |-> Query(U32(n)), addr |-> "a2"] }
    \cup (IF n > MaxDrainVaried THEN {}
          ELSE { [data |-> Update(IF n % 2 = 0 THEN FrameA ELSE FrameB, U32(n)),
                  addr |-> "a1"],
                 [data |-> Garbage, addr |-> "a1"] })

\* A host sends its next datagram while the server is busy or waiting.
DrainSend ==
    /\ srv_exc = "none"
    /\ net_sent < MaxDrainSent
    /\ \E dg \in DrainDatagrams(net_sent + 1) : srv_rx' = Append(srv_rx, dg)
    /\ net_sent' = net_sent + 1
    /\ UNCHANGED <<codec_vars, display_vars, caller_vars, srv_exc, last_update_client,
                   last_update_msg_seq, batch_vars>>

DrainNext == DrainSend \/ ServeForever

SpecDrain == OrderInit /\ [][DrainNext]_vars

\* C33: a cycle of serve_forever takes the first pending datagrams off the
\* socket, in arrival order and at most 10 of them, and leaves the others
\* pending in arrival order; unless an exception ends it, it takes every
\* pending datagram up to the 10th, and it has sent the acknowledgments of its
\* batch when it ends, before the next cycle receives.
C33_BoundedOrderedBatch ==
    [][net_sent' = net_sent
       => /\ batch_rx' \o srv_rx' = srv_rx
          /\ Len(batch_rx') <= 10
          /\ srv_exc' = "none"
             => /\ Len(batch_rx') = IF Len(srv_rx) < 10 THEN Len(srv_rx)
                                    ELSE 10
                /\ AckedOnce']_vars

\* C33's case: twelve datagrams were pending; the cycle received the first
\* ten and left the 11th and the 12th
C33_Witness ==
    /\ srv_exc = "none"
    /\ Len(batch_rx) = 10
    /\ Len(batch_acks) = 10
    /\ Len(srv_rx) = 2
    /\ SeqOf(srv_rx[1]) = U32(11)
    /\ SeqOf(srv_rx[2]) = U32(12)

(* ------------------------- server: queries ---------------------------- *)

\* A 4-byte datagram: a sequence number and no frame
IsQuery(dg) == Len(dg.data) = 4

NotQuery(dg) == ~IsQuery(dg)

\* C35: the queries of a batch change nothing: the batch calls driver.set,
\* ends, and leaves the displayed frame, the last-update client and the
\* last-update sequence number as the batch without its queries would. A batch
\* of queries alone calls no driver.set, leaves the driver and the tracking as
\* they were and answers each query, in order, with the frame get() returns.
C35_QueriesReadOnly ==
    (\E i \in 1..Len(batch_rx) : IsQuery(batch_rx[i]))
    => LET others == _process_requests(SelectSeq(batch_rx, NotQuery),
                                       batch_pre.driver,
                                       batch_pre.last_update_client,
                                       batch_pre.last_update_msg_seq)
       IN  /\ srv_exc = others.exc
           /\ batch_set = others.sets
           /\ driver = others.driver
           /\ last_update_client = others.last_update_client
           /\ last_update_msg_seq = others.last_update_msg_seq
           /\ (\A i \in 1..Len(batch_rx) : IsQuery(batch_rx[i]))
              => /\ batch_set = <<>>
                 /\ driver = batch_pre.driver
                 /\ last_update_client = batch_pre.last_update_client
                 /\ last_update_msg_seq = batch_pre.last_update_msg_seq
                 /\ batch_acks =
                       [k \in 1..Len(batch_rx) |->
                           [data |-> Update(DriverGet(batch_pre.driver),
                                            SeqOf(batch_rx[k])),
                            addr |-> batch_rx[k].addr]]

\* C35's case: two queries from a2 in one batch, after the server applied
\* FrameB for a1: both are answered with FrameB, and a1 and its number stay
\* what the server tracks
C35_Witness ==
    /\ Len(batch_rx) = 2
    /\ IsQuery(batch_rx[1])
    /\ IsQuery(batch_rx[2])
    /\ batch_rx[1].addr = "a2"
    /\ DriverGet(driver) = FrameB
    /\ batch_acks[1].data = Update(FrameB, <<0, 0>>)
    /\ Len(batch_acks) = 2
    /\ last_update_client = "a1"
    /\ last_update_msg_seq = <<0, 1>>

(* ------------- FakeDisplay in the place of LocalLedDisplay ------------ *)

\* The FakeDisplay that was handed every call the LocalLedDisplay d was
\* handed, as long as both returned the same frame from get() after each call:
\* it has d's dimensions and stores the frame d stores
StandIn(d) ==
    [kind |-> "fake", gamma_correct |-> FALSE, dim |-> d.dim,
     current_matrix |-> d.current_matrix, t0 |-> FALSE, spi |-> <<>>]

\* What the FakeDisplay fake does on the call that the step made on the
\* LocalLedDisplay: [exc, driver]
SameCall(fake) ==
    IF call'.op = "set"
    THEN [exc |-> DriverSet(fake, call'.matrix).exc,
          driver |-> DriverSet(fake, call'.matrix).driver]
    ELSE [exc |-> "none", driver |-> fake]

\* C36 (as claimed): a FakeDisplay handed the set and get calls a
\* LocalLedDisplay is handed accepts the calls it accepts and rejects the calls
\* it rejects, and after every call dim() and get() return the same on both.
C36_FakeIsFaithfulStandIn ==
    [][(target \in {"spi", "spi_no_gamma"} /\ call'.op \in {"set", "get"})
       => /\ (SameCall(StandIn(driver)).exc = "none") <=> (call'.exc = "none")
          /\ SameCall(StandIn(driver)).driver.dim = driver'.dim
          /\ DriverGet(SameCall(StandIn(driver)).driver) = DriverGet(driver')
          /\ call'.op = "get" => call'.ret = DriverGet(StandIn(driver))]_vars

(* --------------- one client, the server and the display --------------- *)

\* The number of frames the client sets.
MaxConvSets == 3

\* A server on a local display, and a UdpLedDisplay of its dimensions on the
\* host a1 that no call was made on yet
ConvInit ==
    /\ CodecIdle
    /\ ServerInit
    /\ target \in {"fake", "spi"}
    /\ driver = create_display(target)
    /\ \E synchronous \in BOOLEAN : client = UdpNew(Dim, Dim, synchronous)
    /\ call = NoCall

\* display.set(matrix) with a valid frame: the datagram is sent and reaches
\* the server's socket. A set that does not wait flushes and returns; a
\* synchronous one enters its wait loop.
ConvSet ==
    /\ srv_exc = "none"
    /\ wait.pc = "idle"
    /\ net_sent < MaxConvSets
    /\ \E matrix \in {FrameA, FrameB} :
          \E r \in {UdpSet(client, matrix, <<>>, 0)} :
             /\ srv_rx' = Append(srv_rx, [data |-> r.sent[1], addr |-> "a1"])
             /\ client' = IF client.synchronous THEN client ELSE r.client
             /\ call' = CallOf("set", matrix,
                               [exc |-> IF client.synchronous THEN "pending"
                                        ELSE r.exc,
                                ret |-> NoneVal], r.sent, 0, FALSE)
             /\ wait' = IF client.synchronous
                        THEN [wait EXCEPT !.pc = "select", !.op = "set",
                                          !.tx_msg_seq = client.msg_seq]
                        ELSE wait
    /\ net_sent' = net_sent + 1
    /\ UNCHANGED <<codec_vars, target, driver, srv_exc, last_update_client,
                   last_update_msg_seq, batch_vars, held>>

\* The synchronous set leaves its wait loop: it received in_time of the
\* datagrams that reached its socket and returns on the acknowledgment of its
\* request, or its time ran out.
ConvReturn ==
    /\ wait.pc = "select"
    /\ \E in_time \in 0..Len(client.rx) :
          \E r \in {UdpSet(client, call.matrix, <<>>, in_time)} :
             /\ client' = r.client
             /\ call' = [call EXCEPT !.exc = r.exc, !.timed_out = r.timed_out]
    /\ wait' = [wait EXCEPT !.pc = "idle"]
    /\ UNCHANGED <<codec_vars, target, driver, server_vars, batch_vars, net_sent,
                   held>>

\* One turn of serve_forever; the network takes each acknowledgment to the
\* client's socket, in the order they were sent.
ConvServe ==
    /\ srv_exc = "none"
    /\ srv_rx # <<>>
    /\ \E p \in {_process_requests(srv_rx, driver, last_update_client,
                                    last_update_msg_seq)} :
           /\ srv_rx' = p.rx
           /\ srv_exc' = p.exc
           /\ driver' = p.driver
           /\ last_update_client' = p.last_update_client
           /\ last_update_msg_seq' = p.last_update_msg_seq
           /\ batch_pre' = [driver |-> driver,
                            last_update_client |-> last_update_client,
                            last_update_msg_seq |-> last_update_msg_seq]
           /\ batch_rx' = p.received
           /\ batch_set' = p.sets
           /\ batch_acks' = p.acks
           /\ batch_log' = p.logs
           /\ client' = [client EXCEPT
                            !.rx = @ \o [k \in 1..Len(p.acks) |-> p.acks[k].data]]
    /\ UNCHANGED <<codec_vars, target, call, net_sent, caller_vars>>

ConvNext == ConvSet \/ ConvReturn \/ ConvServe

\* The server keeps running: a turn of serve_forever takes datagrams off the
\* socket, as Receives says, and is the only step that does.
SpecConverge == ConvInit /\ [][ConvNext]_vars /\ WF_srv_rx(Receives)

\* The display shows the frame of the client's last set
Converged == call.op = "set" => DriverGet(driver) = call.matrix

\* C34: the client sets finitely many valid frames, in bursts or one by one,
\* waiting for acknowledgments or not; from some moment on the display holds
\* the frame of the last set, whatever batches the server received them in.
C34_Convergence == <>[]Converged

\* C34's case: the client set MaxConvSets frames, the server received the last
\* two in one batch, applied the last one, and nothing is pending
C34_Witness ==
    /\ net_sent = MaxConvSets
    /\ srv_rx = <<>>
    /\ Len(batch_rx) >= 2
    /\ batch_set = <<call.matrix>>
    /\ batch_set # <<batch_pre.driver.current_matrix>>
    /\ DriverGet(driver) = call.matrix

====
